---- MODULE Spec2Model ----
(***************************************************************************)
(* Verification model of the Aravalli delineation core:                    *)
(*   old_method.compute_old_delineation      (OLD, slope + morphology)     *)
(*   new_method._compute_relief_method       (NEW, fast relief filter)     *)
(*   new_method._compute_contour_method      (NEW, contour enclosure)      *)
(*   stats.compute_hill_distances, stats.compute_statistics                *)
(*                                                                         *)
(* Conventions.  Elevations are integers (metres); NoData stands for NaN.  *)
(* Real-valued intermediate results are kept exact as rationals <<n, d>>.  *)
(* A slope angle is represented by its tangent: arctan and the conversion  *)
(* to degrees are strictly increasing on [0, 90), so "slope_deg > t" is    *)
(* decided exactly by comparing squared tangents.  A vector geometry is a  *)
(* record [cells, ops]: the set of pixels it was traced from and the       *)
(* sequence of buffer distances applied to it afterwards.                  *)
(***************************************************************************)
EXTENDS Integers, Sequences, FiniteSets, TLC

\* ---------------------------------------------------------------- bounds
Rows == 3
Cols == 3
MaxElev == 2

\* ------------------------------------------------------------ grid model
NoData == -1

Cells == (0 .. Rows - 1) \X (0 .. Cols - 1)

IsFinite(v) == v # NoData

\* Elevation grids: a plain at elevation 0 with at most one raised cell (a
\* hill of height 1..MaxElev) and with missing cells at the first cell of
\* the diagonal, at the second, or at both; the grid without data; and the
\* plateaus, of constant elevation MaxElev, with the same missing cells.
HillSites == {{}} \cup {{c} : c \in Cells}
NoDataSites == {{}, {<<0, 0>>}, {<<1, 1>>}, {<<0, 0>>, <<1, 1>>}, Cells}

Plateaus ==
    {[c \in Cells |-> IF c \in N THEN NoData ELSE MaxElev] : N \in NoDataSites}

\* Uniform ramps: the elevation rises by two per column.
Ramps ==
    {[c \in Cells |-> IF c \in N THEN NoData ELSE 2 * c[2]]
        : N \in NoDataSites}

Grids ==
    {[c \in Cells |-> IF c \in N THEN NoData ELSE IF c \in B THEN h ELSE 0]
        : N \in NoDataSites, B \in HillSites, h \in 1 .. MaxElev}
    \cup Plateaus \cup Ramps

RECURSIVE SubsetsUpTo(_, _)
SubsetsUpTo(S, k) ==
    IF k = 0 THEN {{}}
    ELSE LET smaller == SubsetsUpTo(S, k - 1)
         IN  smaller \cup {T \cup {x} : T \in smaller, x \in S}

FiniteCells(Zg) == {c \in Cells : IsFinite(Zg[c])}

RECURSIVE SumOver(_, _)
SumOver(f, S) ==
    IF S = {} THEN 0
    ELSE LET x == CHOOSE y \in S : TRUE IN f[x] + SumOver(f, S \ {x})

SetMin(S) == CHOOSE x \in S : \A y \in S : x <= y
SetMax(S) == CHOOSE x \in S : \A y \in S : x >= y

CeilDiv(a, b) == (a + b - 1) \div b


\* ---------------------------------------------------- exact real numbers
\* A real is a pair <<n, d>> with d > 0; NaN is the pair <<0, 0>>.
NaN == <<0, 0>>

RatGt(a, b) == a # NaN /\ b # NaN /\ a[1] * b[2] > b[1] * a[2]
RatGe(a, b) == a # NaN /\ b # NaN /\ a[1] * b[2] >= b[1] * a[2]
RatEq(a, b) == a # NaN /\ b # NaN /\ a[1] * b[2] = b[1] * a[2]

\* --------------------------------------------------------- run variables
VARIABLES
    method,           \* entry point of the run: "old", "relief" or "contour"
    Z,                \* dem_data['elevation']
    given,            \* the params dictionary passed to the function
    params,           \* the values read from it / dem_data['pixel_size_m']
    err,              \* exception raised by the function, "" if none
    pc,               \* position in the running function
    metric,           \* slope_deg (OLD) or relief (NEW) per cell
    mask,             \* slope_mask / relief_mask: set of true cells
    urban,            \* urban_mask as returned by _generate_urban_mask
    polygons,         \* geoms collected by _polygonize_mask
    geom,             \* old_union / new_union / all_hills / new_clustered
    result,           \* the GeoDataFrame returned
    log,              \* stages executed and warnings logged, in order
    window_size,      \* relief method: side of the minimum filter window
    closed_contours,  \* contour method: list of closed contours
    peak_coords,      \* contour method: np.argwhere(peaks_mask)
    hill_footprints,  \* contour method: list of retained footprints
    fellback          \* contour method handed the run to the relief method

runVars == <<method, Z, given, params, err, pc, metric, mask, urban, polygons, geom, result, log,
             window_size, closed_contours, peak_coords, hill_footprints,
             fellback>>

\* stats.compute_hill_distances
VARIABLES
    hills_gdf,        \* rows of the input frame, each a list of parts
    max_distance_m,
    hill_geoms,       \* geoms = hills.geometry.tolist() after explode
    hill_i,           \* loop index i (0-based)
    distances,        \* rows collected so far
    hd_ret,           \* value returned: "pending", "None" or "df"
    hd_pc

distVars == <<hills_gdf, max_distance_m, hill_geoms, hill_i, distances, hd_ret, hd_pc>>

\* stats.compute_statistics, the loop over the districts
VARIABLES
    districts,        \* per district: its area and the clipped layer areas
    district_idx,     \* number of districts processed
    locals,           \* change_km2, change_pct, ... of the last iteration
    district_stats,   \* rows appended so far
    st_err,           \* a division by zero happened
    st_pc

statVars == <<districts, district_idx, locals, district_stats, st_err, st_pc>>

\* the window size computation of the relief method on its own
VARIABLES
    w_radius, w_pixel, w_size, w_pc

winVars == <<w_radius, w_pixel, w_size, w_pc>>

\* core.run_analysis
VARIABLES
    config,           \* the configuration dictionary of the run
    ra_pc,
    old_gdf,          \* "unset", "empty" or the layer tag
    new_gdf,
    old_clipped,      \* the layers after the overlay with the AOI
    new_clipped,
    hill_distances,   \* "unset", "None" or "df"
    files,            \* output files written so far
    metadata,         \* the "parameters" object of metadata.json
    ra_err,           \* exception that ended the run, "" if none
    ra_calls          \* functions called so far, in order

coreVars == <<config, ra_pc, old_gdf, new_gdf, old_clipped, new_clipped,
              hill_distances, files, metadata, ra_err, ra_calls>>

\* proximity clustering of two round hills on its own
VARIABLES
    cl_prox,          \* range_proximity
    cl_radius,        \* radius of each hill
    cl_gap,           \* edge-to-edge gap between the hills
    cl_geom,          \* new_union / new_clustered, as a set of lattice points
    cl_pc

clVars == <<cl_prox, cl_radius, cl_gap, cl_geom, cl_pc>>

\* the closedness test of one traced contour path
VARIABLES
    cp_pixel_size,    \* dem_data['pixel_size_m']
    cp_path,          \* the path: codes present, vertex count, end points
    cp_closed,        \* closed_contours: the end points of the kept paths
    cp_pc

cpVars == <<cp_pixel_size, cp_path, cp_closed, cp_pc>>

\* the morphology steps of compute_old_delineation on their own
VARIABLES
    mo_pixel_size,      \* dem_data['pixel_size_m']
    mo_gap_bridge,      \* params['gap_bridge_m']
    mo_foothill_buffer, \* params['foothill_buffer_m']
    mo_classified,      \* slope_mask after threshold and exclusion
    mo_mask,            \* slope_mask
    mo_calls,           \* ndimage calls made: <<name, iterations>>
    mo_pc

moVars == <<mo_pixel_size, mo_gap_bridge, mo_foothill_buffer, mo_classified,
            mo_mask, mo_calls, mo_pc>>

\* the peak detection of the contour method on one row of cells
VARIABLES
    pk_pixel_size,    \* dem_data['pixel_size_m']
    pk_Z,             \* the elevations of the row
    pk_window,        \* peak_window
    pk_peaks,         \* peaks_mask: the set of true cells
    pk_pc

pkVars == <<pk_pixel_size, pk_Z, pk_window, pk_peaks, pk_pc>>

VARIABLES
    tc_files,         \* the tile cache directory: file name -> chunks on disk
    tc_provider,      \* provider of the current download_dem_for_bounds call
    tc_tiles,         \* number of tiles the bounds of the call need
    tc_i,             \* tiles of the call already handled
    tc_path,          \* tile_path of the tile being handled
    tc_cached,        \* tile_path was returned as "already exists"
    tc_paths,         \* tile_paths
    tc_failed,        \* failed_tiles
    tc_runs,          \* calls of download_dem_for_bounds started so far
    tc_err,           \* exception that left the call, "" for none
    tc_pc

tcVars == <<tc_files, tc_provider, tc_tiles, tc_i, tc_path, tc_cached,
            tc_paths, tc_failed, tc_runs, tc_err, tc_pc>>

vars == <<runVars, distVars, statVars, winVars, coreVars, clVars, cpVars, moVars, pkVars, tcVars>>

\* What each machine leaves alone.
notRun == <<distVars, statVars, winVars, coreVars, clVars, cpVars, moVars, pkVars, tcVars>>
notDist == <<runVars, statVars, winVars, coreVars, clVars, cpVars, moVars, pkVars, tcVars>>
notStat == <<runVars, distVars, winVars, coreVars, clVars, cpVars, moVars, pkVars, tcVars>>
notWin == <<runVars, distVars, statVars, coreVars, clVars, cpVars, moVars, pkVars, tcVars>>
notCore == <<runVars, distVars, statVars, winVars, clVars, cpVars, moVars, pkVars, tcVars>>
notCl == <<runVars, distVars, statVars, winVars, coreVars, cpVars, moVars, pkVars, tcVars>>
notCp == <<runVars, distVars, statVars, winVars, coreVars, clVars, moVars, pkVars, tcVars>>
notMo == <<runVars, distVars, statVars, winVars, coreVars, clVars, cpVars, pkVars, tcVars>>
notPk == <<runVars, distVars, statVars, winVars, coreVars, clVars, cpVars, moVars, tcVars>>
notTc == <<runVars, distVars, statVars, winVars, coreVars, clVars, cpVars, moVars, pkVars>>

\* ------------------------------------------------ OLD: slope in degrees
\* np.gradient(Z_filled, h, h): central differences inside, one-sided at
\* the edges.  GradTwice is 2h times the gradient of f along one axis.
GradTwice(f, c, axis) ==
    LET n    == IF axis = 1 THEN Rows ELSE Cols
        i    == c[axis]
        at(k) == IF axis = 1 THEN f[<<k, c[2]>>] ELSE f[<<c[1], k>>]
    IN  IF i = 0 THEN 2 * (at(1) - at(0))
        ELSE IF i = n - 1 THEN 2 * (at(n - 1) - at(n - 2))
        ELSE at(i + 1) - at(i - 1)

\* Variant: NaN cells are filled with 0 instead of the mean.
ComputeSlopeDegreesZeroFill(Zg, h) ==
    LET fin  == FiniteCells(Zg)
        fill == [c \in Cells |-> IF c \in fin THEN Zg[c] ELSE 0]
        g2(c) == GradTwice(fill, c, 1) * GradTwice(fill, c, 1)
                 + GradTwice(fill, c, 2) * GradTwice(fill, c, 2)
    IN  [c \in Cells |->
            IF c \in fin THEN <<g2(c), (2 * h) * (2 * h)>> ELSE NaN]

\* _compute_slope_degrees: NaN cells are filled with the mean of the finite
\* cells, the slope is taken, and NaN is restored.  All elevations are
\* scaled by the number nF of finite cells so that the mean stays integral;
\* the value of a cell is tan(slope)^2 = G2 / (2 h nF)^2.
ComputeSlopeDegrees(Zg, h) ==
    LET fin  == FiniteCells(Zg)
        nF   == Cardinality(fin)
        tot  == SumOver(Zg, fin)
        fill == [c \in Cells |-> IF c \in fin THEN nF * Zg[c] ELSE tot]
        g2(c) == GradTwice(fill, c, 1) * GradTwice(fill, c, 1)
                 + GradTwice(fill, c, 2) * GradTwice(fill, c, 2)
    IN  [c \in Cells |->
            IF c \in fin THEN <<g2(c), (2 * h * nF) * (2 * h * nF)>> ELSE NaN]

\* Variant: the comparison is not strict.
SlopeAboveOrEqual(s, t) == RatGe(s, <<t[1] * t[1], t[2] * t[2]>>)

\* slope_deg > slope_threshold, the threshold given by its tangent tn/td.
SlopeAbove(s, t) == RatGt(s, <<t[1] * t[1], t[2] * t[2]>>)

\* (slope_deg > slope_threshold) & np.isfinite(Z)
SlopeMask(slope, Zg, t) ==
    {c \in Cells : SlopeAbove(slope[c], t) /\ IsFinite(Zg[c])}

\* ---------------------------------------------- OLD: raster morphology
\* generate_binary_structure(2, 1): the cell and its 4 edge neighbours.
Structure4 == {<<0, 0>>, <<-1, 0>>, <<1, 0>>, <<0, -1>>, <<0, 1>>}

Shift(c, o) == <<c[1] + o[1], c[2] + o[2]>>

\* One pass of ndimage.binary_dilation / binary_erosion, border_value = 0.
Dilate1(m) == {c \in Cells : \E o \in Structure4 : Shift(c, o) \in m}
Erode1(m)  == {c \in Cells : \A o \in Structure4 : Shift(c, o) \in m}

\* Variant: the structuring element lacks its centre cell.
RECURSIVE BinaryDilationNoCentre(_, _)
BinaryDilationNoCentre(m, n) ==
    IF n = 0 THEN m
    ELSE BinaryDilationNoCentre(
            {c \in Cells : \E o \in Structure4 \ {<<0, 0>>} : Shift(c, o) \in m},
            n - 1)

RECURSIVE BinaryDilation(_, _)
BinaryDilation(m, n) == IF n = 0 THEN m ELSE BinaryDilation(Dilate1(m), n - 1)

RECURSIVE BinaryErosion(_, _)
BinaryErosion(m, n) == IF n = 0 THEN m ELSE BinaryErosion(Erode1(m), n - 1)

\* ndimage.binary_closing: n dilations followed by n erosions.
BinaryClosing(m, n) == BinaryErosion(BinaryDilation(m, n), n)

\* Variant: the whole gap, not half of it, is the closing radius.
GapPixelsWholeGap(gap, h) == CeilDiv(gap, h)

\* int(np.ceil(gap_bridge / pixel_size / 2)), int(np.ceil(buffer / pixel_size))
GapPixels(gap, h) == CeilDiv(gap, 2 * h)
BufferPixels(buf, h) == CeilDiv(buf, h)

\* ------------------------------------------------------- polygonization
\* rasterio.features.shapes with connectivity 4: one polygon per
\* 4-connected component of the true cells.
RECURSIVE Flood(_, _)
Flood(seed, m) ==
    LET grown == seed \cup {c \in m : \E o \in Structure4 : Shift(c, o) \in seed}
    IN  IF grown = seed THEN seed ELSE Flood(grown, m)

RECURSIVE Components(_)
Components(m) ==
    IF m = {} THEN {}
    ELSE LET c    == CHOOSE x \in m : TRUE
             comp == Flood({c}, m)
         IN  {comp} \cup Components(m \ comp)

\* A traced ring touches itself where two cells of one component meet only
\* at a corner; whether such a polygon passes geom.is_valid depends on the
\* tracing library, so both outcomes are possible for it.
Pinched(comp) ==
    \E c \in comp : \E d \in {<<1, 1>>, <<1, -1>>} :
        /\ Shift(c, d) \in comp
        /\ Shift(c, <<d[1], 0>>) \notin comp
        /\ Shift(c, <<0, d[2]>>) \notin comp

\* A layer as returned to the caller.
NoGeom == [cells |-> {}, ops |-> <<>>]
Union(polys) == [cells |-> UNION polys, ops |-> <<>>]

EmptyLayer == [rows |-> 0, layer |-> "", geometry |-> NoGeom]
Pending    == [rows |-> 0, layer |-> "pending", geometry |-> NoGeom]
Layer(tag, g) == [rows |-> 1, layer |-> tag, geometry |-> g]


\* Polygons that _polygonize_mask may return for a mask: every component
\* that is surely valid, and any of the pinched ones.
PolygonizeMask(m) ==
    LET comps == Components(m)
        sure  == {q \in comps : ~Pinched(q)}
    IN  {sure \cup inv : inv \in SUBSET (comps \ sure)}

\* ----------------------------------------------------------- parameters
PixelSizes == {2}
SlopeThresholds == {<<1, 4>>, <<1, 2>>}    \* tan of slope_threshold_deg
FoothillBuffers == {0, 1}
GapBridges == {0, 3}
ReliefThresholds == 0 .. MaxElev
RangeProximities == {5}
ReliefRadii == {1, 9}
ContourIntervals == {1, 2}

DefaultParams ==
    [pixel_size |-> 2, slope_threshold |-> <<1, 4>>, foothill_buffer |-> 0,
     gap_bridge |-> 0, relief_threshold |-> 1, range_proximity |-> 5,
     relief_radius |-> 1, contour_interval |-> 1]

\* A key of a dictionary is missing (Absent) or bound to a value v
\* (Given(v)).
Absent == <<>>
Given(v) == <<v>>

\* d.get(key, default)
Get(cfg, key, default) == IF cfg[key] = Absent THEN default ELSE cfg[key][1]

\* The dictionary that holds the values p; and the same without a key.
AsDict(p) == [k \in DOMAIN p |-> Given(p[k])]
Without(d, key) == [d EXCEPT ![key] = Absent]

OldParams ==
    {[DefaultParams EXCEPT !.pixel_size = h, !.slope_threshold = t,
                           !.foothill_buffer = b, !.gap_bridge = g]
        : h \in PixelSizes, t \in SlopeThresholds,
          b \in FoothillBuffers, g \in GapBridges}

\* _generate_urban_mask: None (no features, or any failure), or a mask.
NoUrban == [none |-> TRUE, cells |-> {}]
UrbanOutcomes ==
    {NoUrban} \cup {[none |-> FALSE, cells |-> u]
                      : u \in {{}, {c \in Cells : c[1] = 0}}}

\* ------------------------------------------- OLD: compute_old_delineation
\* Variant: the order of the docstring, buffer before gap bridging.
OldOrderBufferFirst ==
    <<"slope", "threshold", "urban", "emptycheck", "dilate", "close",
      "polygonize", "dissolve", "done">>

\* Variant: the urban mask is generated after the empty-mask check.
OldOrderUrbanLate ==
    <<"slope", "threshold", "emptycheck", "urban", "close", "dilate",
      "polygonize", "dissolve", "done">>

\* Order of the statements of compute_old_delineation.
OldOrder ==
    <<"slope", "threshold", "urban", "emptycheck", "close", "dilate",
      "polygonize", "dissolve", "done">>

PcAfter(order, p) ==
    order[(CHOOSE i \in 1 .. Len(order) - 1 : order[i] = p) + 1]

OldStep(p, lg) ==
    /\ method = "old"
    /\ pc = p
    /\ log' = log \o lg
    /\ UNCHANGED <<method, Z, given, params, err, window_size,
                   closed_contours, peak_coords, hill_footprints, fellback>>
    /\ UNCHANGED notRun

OldSlope ==
    /\ OldStep("slope", <<"slope">>)
    /\ metric' = ComputeSlopeDegrees(Z, params.pixel_size)
    /\ pc' = PcAfter(OldOrder, "slope")
    /\ UNCHANGED <<mask, urban, polygons, geom, result>>

OldThreshold ==
    /\ OldStep("threshold", <<"threshold">>)
    /\ mask' = SlopeMask(metric, Z, params.slope_threshold)
    /\ pc' = PcAfter(OldOrder, "threshold")
    /\ UNCHANGED <<metric, urban, polygons, geom, result>>

\* Variant: the AND is taken with the exclusion mask itself.
ExcludeMaskKept(m, u) == m \cap u

\* slope_mask & (~urban_mask)
ExcludeMask(m, u) == m \ u

OldUrban ==
    /\ pc = "urban"
    /\ \E u \in UrbanOutcomes :
        LET applies == ~u.none /\ Cardinality(u.cells) > 0 IN
        /\ OldStep("urban", IF applies THEN <<"urban", "exclude">>
                                        ELSE <<"urban">>)
        /\ urban' = u
        /\ mask' = IF applies THEN ExcludeMask(mask, u.cells) ELSE mask
        /\ pc' = PcAfter(OldOrder, "urban")
        /\ UNCHANGED <<metric, polygons, geom, result>>

\* Variant: no early return on an empty mask.
OldEmptyCheckFallsThrough ==
    /\ OldStep("emptycheck", <<>>)
    /\ pc' = PcAfter(OldOrder, "emptycheck")
    /\ UNCHANGED <<metric, mask, urban, polygons, geom, result>>

OldEmptyCheck ==
    LET masked_pixels == Cardinality(mask) IN
    /\ OldStep("emptycheck", IF masked_pixels = 0 THEN <<"warn_empty">>
                                                   ELSE <<>>)
    /\ IF masked_pixels = 0
          THEN result' = EmptyLayer /\ pc' = "done"
          ELSE result' = result /\ pc' = PcAfter(OldOrder, "emptycheck")
    /\ UNCHANGED <<metric, mask, urban, polygons, geom>>

OldClose ==
    LET gap_pixels == GapPixels(params.gap_bridge, params.pixel_size) IN
    /\ OldStep("close", IF gap_pixels > 0 THEN <<"close">> ELSE <<>>)
    /\ mask' = IF gap_pixels > 0 THEN BinaryClosing(mask, gap_pixels) ELSE mask
    /\ pc' = PcAfter(OldOrder, "close")
    /\ UNCHANGED <<metric, urban, polygons, geom, result>>

OldDilate ==
    LET buffer_pixels == BufferPixels(params.foothill_buffer, params.pixel_size) IN
    /\ OldStep("dilate", IF buffer_pixels > 0 THEN <<"dilate">> ELSE <<>>)
    /\ mask' = IF buffer_pixels > 0 THEN BinaryDilation(mask, buffer_pixels)
                                    ELSE mask
    /\ pc' = PcAfter(OldOrder, "dilate")
    /\ UNCHANGED <<metric, urban, polygons, geom, result>>

OldPolygonize ==
    /\ pc = "polygonize"
    /\ \E geoms \in PolygonizeMask(mask) :
        /\ OldStep("polygonize", IF geoms = {} THEN <<"polygonize", "warn_polygonize">>
                                               ELSE <<"polygonize">>)
        /\ polygons' = geoms
        /\ IF geoms = {}
              THEN result' = EmptyLayer /\ pc' = "done"
              ELSE result' = result /\ pc' = PcAfter(OldOrder, "polygonize")
        /\ UNCHANGED <<metric, mask, urban, geom>>

OldDissolve ==
    /\ OldStep("dissolve", <<"dissolve">>)
    /\ geom' = Union(polygons)
    /\ result' = Layer("OLD_FSI_like", geom')
    /\ pc' = PcAfter(OldOrder, "dissolve")
    /\ UNCHANGED <<metric, mask, urban, polygons>>


\* ------------------------------------- NEW: _compute_relief_method (fast)
Max(a, b) == IF a >= b THEN a ELSE b

\* Variant: an even window is left even.
WindowSizeNoOddFix(radius, h) == Max(3, radius \div h)

\* Variant: the quotient is rounded up instead of truncated.
WindowSizeCeil(radius, h) ==
    LET w == Max(3, CeilDiv(radius, h))
    IN  IF w % 2 = 0 THEN w + 1 ELSE w

\* window_size = max(3, int(relief_radius / pixel_size)), made odd.
WindowSize(radius, h) ==
    LET w == Max(3, radius \div h)
    IN  IF w % 2 = 0 THEN w + 1 ELSE w

\* Variant: NaN replaced by 0.
FilledWithZero(Zg) == [c \in Cells |-> IF IsFinite(Zg[c]) THEN Zg[c] ELSE 0]

\* Z_filled: NaN replaced by the minimum of the finite cells (0 if none).
FilledWithMin(Zg) ==
    LET fin == {c \in DOMAIN Zg : IsFinite(Zg[c])}
        lo  == IF fin # {} THEN SetMin({Zg[c] : c \in fin}) ELSE 0
    IN  [c \in DOMAIN Zg |-> IF c \in fin THEN Zg[c] ELSE lo]

\* Border mode 'reflect' of scipy.ndimage filters: (b a | a b c | c b).
Reflect(k, n) ==
    LET m == k % (2 * n) IN IF m >= n THEN 2 * n - 1 - m ELSE m

\* Cells under a w x w window centred on c, in a grid of nr x nc cells.
WindowIn(c, w, nr, nc) ==
    LET r == w \div 2
    IN  {Reflect(c[1] + i, nr) : i \in -r .. r}
        \X {Reflect(c[2] + j, nc) : j \in -r .. r}

Window(c, w) == WindowIn(c, w, Rows, Cols)

MaximumFilterIn(f, w, nr, nc) ==
    [c \in DOMAIN f |-> SetMax({f[d] : d \in WindowIn(c, w, nr, nc)})]

MinimumFilter(f, w) == [c \in Cells |-> SetMin({f[d] : d \in Window(c, w)})]
MaximumFilter(f, w) == MaximumFilterIn(f, w, Rows, Cols)

\* relief = Z_filled - minimum_filter(Z_filled, size=window_size)
ComputeRelief(Zg, w) ==
    LET zf == FilledWithMin(Zg)
        lm == MinimumFilter(zf, w)
    IN  [c \in Cells |-> <<zf[c] - lm[c], 1>>]

\* Variant: the finite-value mask is left out.
ReliefMaskNoFinite(relief, Zg, t) ==
    {c \in Cells : RatGe(relief[c], <<t, 1>>)}

\* (relief >= relief_threshold) & Z_finite
ReliefMask(relief, Zg, t) ==
    {c \in Cells : RatGe(relief[c], <<t, 1>>) /\ IsFinite(Zg[c])}

\* Variant: the full proximity is used as the buffer radius.
ClusterByFullProximity(g, prox) ==
    [g EXCEPT !.ops = @ \o << <<prox, 1>>, <<-prox, 1>> >>]

\* buffer(half_proximity) followed by buffer(-half_proximity), where
\* half_proximity = range_proximity / 2.
ClusterByProximity(g, prox) ==
    [g EXCEPT !.ops = @ \o << <<prox, 2>>, <<-prox, 2>> >>]

ReliefParams ==
    {[DefaultParams EXCEPT !.pixel_size = h, !.relief_threshold = t,
                           !.range_proximity = x, !.relief_radius = r]
        : h \in PixelSizes, t \in ReliefThresholds,
          x \in RangeProximities, r \in ReliefRadii}

ReliefOrder ==
    <<"r_window", "r_filter", "r_threshold", "r_emptycheck", "r_polygonize",
      "r_dissolve", "r_cluster", "done">>

ReliefStep(p, lg) ==
    /\ method \in {"relief", "contour"}
    /\ pc = p
    /\ log' = log \o lg
    /\ UNCHANGED <<method, Z, given, params, err, urban, closed_contours,
                   peak_coords, hill_footprints, fellback>>
    /\ UNCHANGED notRun

ReliefWindow ==
    /\ ReliefStep("r_window", <<>>)
    /\ window_size' = WindowSize(params.relief_radius, params.pixel_size)
    /\ pc' = PcAfter(ReliefOrder, "r_window")
    /\ UNCHANGED <<metric, mask, polygons, geom, result>>

ReliefFilter ==
    /\ ReliefStep("r_filter", <<"relief">>)
    /\ metric' = ComputeRelief(Z, window_size)
    /\ pc' = PcAfter(ReliefOrder, "r_filter")
    /\ UNCHANGED <<window_size, mask, polygons, geom, result>>

ReliefThreshold ==
    /\ ReliefStep("r_threshold", <<"threshold">>)
    /\ mask' = ReliefMask(metric, Z, params.relief_threshold)
    /\ pc' = PcAfter(ReliefOrder, "r_threshold")
    /\ UNCHANGED <<window_size, metric, polygons, geom, result>>

ReliefEmptyCheck ==
    LET masked_pixels == Cardinality(mask) IN
    /\ ReliefStep("r_emptycheck", IF masked_pixels = 0 THEN <<"warn_empty">>
                                                       ELSE <<>>)
    /\ IF masked_pixels = 0
          THEN result' = EmptyLayer /\ pc' = "done"
          ELSE result' = result /\ pc' = PcAfter(ReliefOrder, "r_emptycheck")
    /\ UNCHANGED <<window_size, metric, mask, polygons, geom>>

ReliefPolygonize ==
    /\ pc = "r_polygonize"
    /\ \E geoms \in PolygonizeMask(mask) :
        /\ ReliefStep("r_polygonize",
                      IF geoms = {} THEN <<"polygonize", "warn_polygonize">>
                                    ELSE <<"polygonize">>)
        /\ polygons' = geoms
        /\ IF geoms = {}
              THEN result' = EmptyLayer /\ pc' = "done"
              ELSE result' = result /\ pc' = PcAfter(ReliefOrder, "r_polygonize")
        /\ UNCHANGED <<window_size, metric, mask, geom>>

ReliefDissolve ==
    /\ ReliefStep("r_dissolve", <<"dissolve">>)
    /\ geom' = Union(polygons)
    /\ pc' = PcAfter(ReliefOrder, "r_dissolve")
    /\ UNCHANGED <<window_size, metric, mask, polygons, result>>

ReliefCluster ==
    /\ ReliefStep("r_cluster", <<"cluster">>)
    /\ geom' = ClusterByProximity(geom, params.range_proximity)
    /\ result' = Layer("NEW_2025_relief", geom')
    /\ pc' = PcAfter(ReliefOrder, "r_cluster")
    /\ UNCHANGED <<window_size, metric, mask, polygons>>


\* -------------------------------- NEW: _compute_contour_method (accurate)
FloorDiv(a, b) == a \div b

\* np.arange(min_elev, max_elev + contour_interval, contour_interval) with
\* min_elev = floor(min / ci) * ci and max_elev = ceil(max / ci) * ci.
ContourLevels(Zg, ci) ==
    LET zf == FilledWithMin(Zg)
        lo == FloorDiv(SetMin({zf[c] : c \in Cells}), ci) * ci
        hi == CeilDiv(SetMax({zf[c] : c \in Cells}), ci) * ci
    IN  [k \in 1 .. ((hi - lo) \div ci) + 1 |-> lo + (k - 1) * ci]

RECURSIVE SeqOfSet(_)
SeqOfSet(S) ==
    IF S = {} THEN <<>>
    ELSE LET x == CHOOSE y \in S : TRUE IN <<x>> \o SeqOfSet(S \ {x})

\* Rings the contouring library can trace at one level: the level must
\* separate the data; a ring encloses a connected group of cells at or
\* above the level.  The geometry of a contour is the set of cell points
\* its polygon contains.
RingsAt(Zg, level) ==
    LET zf == FilledWithMin(Zg)
    IN  IF (\E c \in Cells : zf[c] < level) /\ (\E c \in Cells : zf[c] >= level)
        THEN {[elevation |-> level, geometry |-> q]
                : q \in Components({c \in Cells : zf[c] >= level})}
        ELSE {}

\* closed_contours as built by the loop over contour_levels: level by
\* level in ascending order; which rings are closed, valid and of positive
\* area (and so retained) is decided by the tracing.
RECURSIVE ContoursFrom(_, _, _)
ContoursFrom(Zg, levels, keep) ==
    IF levels = <<>> THEN <<>>
    ELSE SeqOfSet(RingsAt(Zg, Head(levels)) \cap keep)
         \o ContoursFrom(Zg, Tail(levels), keep)

AllRings(Zg, levels) == UNION {RingsAt(Zg, levels[k]) : k \in DOMAIN levels}

TracedContours(Zg, levels) ==
    {ContoursFrom(Zg, levels, keep) : keep \in SUBSET AllRings(Zg, levels)}

\* Variant: the window may be as small as 3.
PeakWindowThree(h) ==
    LET w == Max(3, 500 \div h)
    IN  IF w % 2 = 0 THEN w + 1 ELSE w

\* peak_window = max(5, int(500 / pixel_size)), made odd.
PeakWindow(h) ==
    LET w == Max(5, 500 \div h)
    IN  IF w % 2 = 0 THEN w + 1 ELSE w

\* np.argwhere((Z_filled == local_max) & Z_finite), in row-major order.
RECURSIVE RowMajor(_)
RowMajor(S) ==
    IF S = {} THEN <<>>
    ELSE LET c == CHOOSE x \in S : \A y \in S :
                     x[1] < y[1] \/ (x[1] = y[1] /\ x[2] <= y[2])
         IN  <<c>> \o RowMajor(S \ {c})

\* (Z_filled == maximum_filter(Z_filled, size=w)) & Z_finite on a grid of
\* nr x nc cells.
PeaksMask(Zg, w, nr, nc) ==
    LET zf == FilledWithMin(Zg)
        lm == MaximumFilterIn(zf, w, nr, nc)
    IN  {c \in DOMAIN Zg : zf[c] = lm[c] /\ IsFinite(Zg[c])}

PeakCoords(Zg, h) == RowMajor(PeaksMask(Zg, PeakWindow(h), Rows, Cols))

\* closed_contours.sort(key=elevation): stable, ascending.
RECURSIVE SortByElevation(_)
SortByElevation(cs) ==
    IF cs = <<>> THEN <<>>
    ELSE LET rest == SortByElevation(Tail(cs))
             x    == Head(cs)
             n    == Cardinality({i \in DOMAIN rest : rest[i].elevation < x.elevation})
         IN  SubSeq(rest, 1, n) \o <<x>> \o SubSeq(rest, n + 1, Len(rest))

\* Variant: the scan does not stop at the first enclosing contour.
ScanPeakNoBreak(p, peak_elev, contours, threshold) ==
    LET hits == {i \in DOMAIN contours :
                    /\ p \in contours[i].geometry
                    /\ peak_elev - contours[i].elevation >= threshold}
        fp(i) == [peak |-> p, peak_elev |-> peak_elev,
                  base_elev |-> contours[i].elevation,
                  relief |-> peak_elev - contours[i].elevation,
                  geometry |-> contours[i].geometry]
    IN  [k \in 1 .. Cardinality(hits) |->
            fp(CHOOSE i \in hits : Cardinality({j \in hits : j < i}) = k - 1)]

\* The inner loop for one peak: the first contour of the list that contains
\* the peak point decides; later contours are not looked at.  The field
\* peak is not in the source record; it names the peak the footprint
\* belongs to.
ScanPeak(p, peak_elev, contours, threshold) ==
    LET hits == {i \in DOMAIN contours : p \in contours[i].geometry}
    IN  IF hits = {} THEN <<>>
        ELSE LET contour      == contours[SetMin(hits)]
                 local_relief == peak_elev - contour.elevation
             IN  IF local_relief >= threshold
                 THEN <<[peak |-> p, peak_elev |-> peak_elev,
                         base_elev |-> contour.elevation,
                         relief |-> local_relief,
                         geometry |-> contour.geometry]>>
                 ELSE <<>>

RECURSIVE EnclosureSearch(_, _, _, _)
EnclosureSearch(peaks, zf, contours, threshold) ==
    IF peaks = <<>> THEN <<>>
    ELSE ScanPeak(Head(peaks), zf[Head(peaks)], contours, threshold)
         \o EnclosureSearch(Tail(peaks), zf, contours, threshold)

ContourParams ==
    {[DefaultParams EXCEPT !.pixel_size = h, !.relief_threshold = t,
                           !.range_proximity = x, !.contour_interval = ci]
        : h \in PixelSizes, t \in ReliefThresholds,
          x \in RangeProximities, ci \in ContourIntervals}

ContourOrder ==
    <<"c_start", "c_trace", "c_check", "c_peaks", "c_sort", "c_scan",
      "c_filter", "c_union", "c_cluster", "done">>

ContourStep(p, lg) ==
    /\ method = "contour"
    /\ pc = p
    /\ log' = log \o lg
    /\ UNCHANGED <<method, Z, given, params, err, urban, window_size, metric,
                   mask, polygons>>
    /\ UNCHANGED notRun

\* Variant: an empty layer is returned instead of the relief result.
ContourFallbackEmpty(p, lg) ==
    /\ ContourStep(p, lg \o <<"warn_fallback">>)
    /\ fellback' = TRUE
    /\ pc' = "done"
    /\ result' = EmptyLayer
    /\ UNCHANGED <<closed_contours, peak_coords, hill_footprints, geom>>

\* return _compute_relief_method(dem_data, aoi_gdf, params) after the
\* warnings lg.
ContourFallback(p, lg) ==
    /\ ContourStep(p, lg \o <<"warn_fallback">>)
    /\ fellback' = TRUE
    /\ pc' = "r_window"
    /\ UNCHANGED <<closed_contours, peak_coords, hill_footprints, geom, result>>

ContourStart ==
    /\ pc = "c_start"
    /\ IF FiniteCells(Z) = {}
          THEN ContourStep("c_start", <<>>) /\ result' = EmptyLayer /\ pc' = "done"
          ELSE ContourStep("c_start", <<"levels">>) /\ result' = result
               /\ pc' = PcAfter(ContourOrder, "c_start")
    /\ UNCHANGED <<closed_contours, peak_coords, hill_footprints, geom, fellback>>

ContourTrace ==
    /\ pc = "c_trace"
    /\ \E cc \in TracedContours(Z, ContourLevels(Z, params.contour_interval)) :
          /\ ContourStep("c_trace", <<"contours">>)
          /\ closed_contours' = cc
    /\ pc' = PcAfter(ContourOrder, "c_trace")
    /\ UNCHANGED <<peak_coords, hill_footprints, geom, result, fellback>>

ContourTraceFails ==
    /\ pc = "c_trace"
    /\ ContourFallback("c_trace", <<"warn_contour_failed">>)

ContourCheck ==
    /\ closed_contours # <<>>
    /\ ContourStep("c_check", <<>>)
    /\ pc' = PcAfter(ContourOrder, "c_check")
    /\ UNCHANGED <<closed_contours, peak_coords, hill_footprints, geom, result,
                   fellback>>

ContourNoneClosed ==
    /\ closed_contours = <<>>
    /\ ContourFallback("c_check", <<>>)

ContourPeaks ==
    /\ ContourStep("c_peaks", <<"peaks">>)
    /\ peak_coords' = PeakCoords(Z, params.pixel_size)
    /\ pc' = PcAfter(ContourOrder, "c_peaks")
    /\ UNCHANGED <<closed_contours, hill_footprints, geom, result, fellback>>

ContourSort ==
    /\ ContourStep("c_sort", <<>>)
    /\ closed_contours' = SortByElevation(closed_contours)
    /\ pc' = PcAfter(ContourOrder, "c_sort")
    /\ UNCHANGED <<peak_coords, hill_footprints, geom, result, fellback>>

ContourScan ==
    /\ ContourStep("c_scan", <<"enclosure">>)
    /\ hill_footprints' = EnclosureSearch(peak_coords, FilledWithMin(Z),
                                          closed_contours, params.relief_threshold)
    /\ pc' = PcAfter(ContourOrder, "c_scan")
    /\ UNCHANGED <<closed_contours, peak_coords, geom, result, fellback>>

ContourFilter ==
    /\ ContourStep("c_filter", IF hill_footprints = <<>> THEN <<"warn_empty">>
                                                         ELSE <<>>)
    /\ IF hill_footprints = <<>>
          THEN result' = EmptyLayer /\ pc' = "done"
          ELSE result' = result /\ pc' = PcAfter(ContourOrder, "c_filter")
    /\ UNCHANGED <<closed_contours, peak_coords, hill_footprints, geom, fellback>>

ContourUnion ==
    /\ ContourStep("c_union", <<"dissolve">>)
    /\ geom' = Union({hill_footprints[i].geometry : i \in DOMAIN hill_footprints})
    /\ pc' = PcAfter(ContourOrder, "c_union")
    /\ UNCHANGED <<closed_contours, peak_coords, hill_footprints, result, fellback>>

ContourCluster ==
    /\ ContourStep("c_cluster", <<"cluster">>)
    /\ geom' = ClusterByProximity(geom, params.range_proximity)
    /\ result' = Layer("NEW_2025_contour", geom')
    /\ pc' = PcAfter(ContourOrder, "c_cluster")
    /\ UNCHANGED <<closed_contours, peak_coords, hill_footprints, fellback>>


\* ------------------------------------------------ idle values per machine
RunIdle ==
    /\ method = "none" /\ Z = [c \in Cells |-> 0] /\ params = DefaultParams
    /\ given = <<>> /\ err = ""
    /\ pc = "idle" /\ metric = [c \in Cells |-> NaN] /\ mask = {}
    /\ urban = NoUrban /\ polygons = {} /\ geom = NoGeom /\ result = Pending
    /\ log = <<>> /\ window_size = 0 /\ closed_contours = <<>>
    /\ peak_coords = <<>> /\ hill_footprints = <<>> /\ fellback = FALSE

DistIdle ==
    /\ hills_gdf = <<>> /\ max_distance_m = 0 /\ hill_geoms = <<>> /\ hill_i = 0
    /\ distances = <<>> /\ hd_ret = "pending" /\ hd_pc = "idle"

StatIdle ==
    /\ districts = <<>> /\ district_idx = 0 /\ locals = <<>>
    /\ district_stats = <<>> /\ st_err = FALSE /\ st_pc = "idle"

WinIdle == w_radius = 0 /\ w_pixel = 0 /\ w_size = 0 /\ w_pc = "idle"

CoreIdle ==
    /\ config = <<>> /\ ra_pc = "idle" /\ old_gdf = "unset" /\ new_gdf = "unset"
    /\ old_clipped = "unset" /\ new_clipped = "unset"
    /\ hill_distances = "unset" /\ files = {} /\ metadata = <<>>
    /\ ra_err = "" /\ ra_calls = <<>>

ClIdle ==
    cl_prox = 0 /\ cl_radius = 0 /\ cl_gap = 0 /\ cl_geom = {} /\ cl_pc = "idle"

CpIdle ==
    cp_pixel_size = 0 /\ cp_path = <<>> /\ cp_closed = <<>> /\ cp_pc = "idle"

MoIdle ==
    mo_pixel_size = 0 /\ mo_gap_bridge = 0 /\ mo_foothill_buffer = 0
    /\ mo_classified = {} /\ mo_mask = {} /\ mo_calls = <<>> /\ mo_pc = "idle"

PkIdle ==
    pk_pixel_size = 0 /\ pk_Z = <<>> /\ pk_window = 0 /\ pk_peaks = {}
    /\ pk_pc = "idle"

TcIdle ==
    tc_files = <<>> /\ tc_provider = "" /\ tc_tiles = 0 /\ tc_i = 0
    /\ tc_path = <<>> /\ tc_cached = FALSE /\ tc_paths = <<>>
    /\ tc_failed = <<>> /\ tc_runs = 0 /\ tc_err = "" /\ tc_pc = "idle"

IdleButRun == DistIdle /\ StatIdle /\ WinIdle /\ CoreIdle /\ ClIdle /\ CpIdle /\ MoIdle /\ PkIdle /\ TcIdle
IdleButDist == RunIdle /\ StatIdle /\ WinIdle /\ CoreIdle /\ ClIdle /\ CpIdle /\ MoIdle /\ PkIdle /\ TcIdle
IdleButStat == RunIdle /\ DistIdle /\ WinIdle /\ CoreIdle /\ ClIdle /\ CpIdle /\ MoIdle /\ PkIdle /\ TcIdle
IdleButWin == RunIdle /\ DistIdle /\ StatIdle /\ CoreIdle /\ ClIdle /\ CpIdle /\ MoIdle /\ PkIdle /\ TcIdle
IdleButCore == RunIdle /\ DistIdle /\ StatIdle /\ WinIdle /\ ClIdle /\ CpIdle /\ MoIdle /\ PkIdle /\ TcIdle
IdleButCl == RunIdle /\ DistIdle /\ StatIdle /\ WinIdle /\ CoreIdle /\ CpIdle /\ MoIdle /\ PkIdle /\ TcIdle
IdleButCp == RunIdle /\ DistIdle /\ StatIdle /\ WinIdle /\ CoreIdle /\ ClIdle /\ MoIdle /\ PkIdle /\ TcIdle
IdleButMo == DistIdle /\ StatIdle /\ WinIdle /\ CoreIdle /\ ClIdle /\ CpIdle /\ RunIdle /\ PkIdle /\ TcIdle
IdleButPk == DistIdle /\ StatIdle /\ WinIdle /\ CoreIdle /\ ClIdle /\ CpIdle /\ MoIdle /\ RunIdle /\ TcIdle
IdleButTc == DistIdle /\ StatIdle /\ WinIdle /\ CoreIdle /\ ClIdle /\ CpIdle /\ MoIdle /\ PkIdle /\ RunIdle

\* ------------------------------------------------- the delineation runs
EntryPoint(m) ==
    CASE m = "old" -> "slope" [] m = "relief" -> "r_window" [] m = "contour" -> "c_start"

\* The threshold key each function reads.
ThresholdKey(m) == IF m = "old" THEN "slope_threshold" ELSE "relief_threshold"

ReadStep ==
    /\ pc = "read"
    /\ UNCHANGED <<method, Z, given, metric, mask, urban, polygons, geom, result,
                   log, window_size, closed_contours, peak_coords,
                   hill_footprints, fellback>>
    /\ UNCHANGED notRun

\* compute_old_delineation, lines 50-57: params['slope_threshold_deg'].
OldReadParams ==
    /\ method = "old"
    /\ ReadStep
    /\ IF given.slope_threshold = Absent
          THEN err' = "KeyError" /\ pc' = "raised" /\ params' = params
          ELSE /\ params' = [k \in DOMAIN given |-> given[k][1]]
               /\ err' = err /\ pc' = EntryPoint(method)

\* Variant: a missing relief threshold is read as 0.
ReliefThresholdGetZero(g) == Get(g, "relief_threshold", 0)

\* params.get('relief_threshold_m', 100)
ReliefThresholdGet(g) ==
    Get(g, "relief_threshold", DefaultParams.relief_threshold)

\* _compute_relief_method, lines 84-91, and _compute_contour_method, lines
\* 177-184.
NewReadParams ==
    /\ method \in {"relief", "contour"}
    /\ ReadStep
    /\ params' = [k \in DOMAIN given |->
                    IF k = "relief_threshold" THEN ReliefThresholdGet(given)
                    ELSE given[k][1]]
    /\ err' = err /\ pc' = EntryPoint(method)

ParamsOf(m) ==
    CASE m = "old" -> OldParams [] m = "relief" -> ReliefParams
      [] m = "contour" -> ContourParams

\* The dictionaries a caller may pass: complete, or without the threshold.
GivenOf(m) ==
    {AsDict(p) : p \in ParamsOf(m)}
    \cup {Without(AsDict(p), ThresholdKey(m)) : p \in ParamsOf(m)}

Init ==
    /\ method \in {"old", "relief", "contour"}
    /\ Z \in Grids
    /\ given \in GivenOf(method)
    /\ params = DefaultParams
    /\ err = ""
    /\ pc = "read"
    /\ metric = [c \in Cells |-> NaN]
    /\ mask = {}
    /\ urban = NoUrban
    /\ polygons = {}
    /\ geom = NoGeom
    /\ result = Pending
    /\ log = <<>>
    /\ window_size = 0
    /\ closed_contours = <<>>
    /\ peak_coords = <<>>
    /\ hill_footprints = <<>>
    /\ fellback = FALSE
    /\ IdleButRun

Next ==
    \/ OldReadParams \/ NewReadParams
    \/ OldSlope \/ OldThreshold \/ OldUrban \/ OldEmptyCheck
    \/ OldClose \/ OldDilate \/ OldPolygonize \/ OldDissolve
    \/ ReliefWindow \/ ReliefFilter \/ ReliefThreshold \/ ReliefEmptyCheck
    \/ ReliefPolygonize \/ ReliefDissolve \/ ReliefCluster
    \/ ContourStart \/ ContourTrace \/ ContourTraceFails \/ ContourCheck
    \/ ContourNoneClosed \/ ContourPeaks \/ ContourSort \/ ContourScan
    \/ ContourFilter \/ ContourUnion \/ ContourCluster

Spec == Init /\ [][Next]_vars


\* ---------------------------------------- stats.compute_hill_distances
MaxParts == 3
MaxX == 6

\* A part is a unit square with its lower left corner at a grid position.
BoxAt(q) == [x0 |-> q[1], x1 |-> q[1] + 1, y0 |-> q[2], y1 |-> q[2] + 1]

PartPositions == (0 .. MaxX) \X {0, 2}
MaxDistances == {0, 1, 3, 10}

\* Input frames: no row, or one row holding a multi-part geometry whose
\* parts lie at distinct positions (listed in row-major order).
HillFrames ==
    {<<>>} \cup {<<[k \in 1 .. Cardinality(S) |-> BoxAt(RowMajor(S)[k])]>>
                   : S \in SubsetsUpTo(PartPositions, MaxParts) \ {{}}}

\* hills_gdf.explode(index_parts=False): one row per part.
RECURSIVE Explode(_)
Explode(rows) ==
    IF rows = <<>> THEN <<>> ELSE Head(rows) \o Explode(Tail(rows))

AxisGap(a0, a1, b0, b1) == Max(0, Max(b0 - a1, a0 - b1))

\* geom.distance(other), squared.
Dist2(a, b) ==
    LET gx == AxisGap(a.x0, a.x1, b.x0, b.x1)
        gy == AxisGap(a.y0, a.y1, b.y0, b.y1)
    IN  gx * gx + gy * gy

\* Variant: the index returns only the parts listed after the queried one.
TreeQueryForward(gs, i, d) ==
    {j \in i + 1 .. Len(gs) - 1 :
        /\ AxisGap(gs[i + 1].x0, gs[i + 1].x1, gs[j + 1].x0, gs[j + 1].x1) <= d
        /\ AxisGap(gs[i + 1].y0, gs[i + 1].y1, gs[j + 1].y0, gs[j + 1].y1) <= d}

\* tree.query(geom.buffer(d)): indices (0-based) of the parts whose bounding
\* box meets the bounding box of the buffered geometry.
TreeQuery(gs, i, d) ==
    {j \in 0 .. Len(gs) - 1 :
        /\ AxisGap(gs[i + 1].x0, gs[i + 1].x1, gs[j + 1].x0, gs[j + 1].x1) <= d
        /\ AxisGap(gs[i + 1].y0, gs[i + 1].y1, gs[j + 1].y0, gs[j + 1].y1) <= d}

\* Variant: the part itself is not skipped.
OthersWithSelf(cands, i) == cands

\* if i == j: continue
Others(cands, i) == cands \ {i}

\* Variant: a neighbour exactly at the maximum distance counts.
WithinReachInclusive(d2, d) == d2 <= d * d

\* min_dist < max_distance_m, for a squared distance.
WithinReach(d2, d) == d2 < d * d

\* round(min_dist, 1), in tenths of a metre, from the squared distance.
RoundTenths(d2) ==
    CHOOSE k \in 0 .. 10 * (d2 + 1) :
        /\ 400 * d2 < (2 * k + 1) * (2 * k + 1)
        /\ k = 0 \/ (2 * k - 1) * (2 * k - 1) <= 400 * d2

HdStep(p) ==
    /\ hd_pc = p
    /\ UNCHANGED <<hills_gdf, max_distance_m>>
    /\ UNCHANGED notDist

\* Lines 134-144: empty frame, explode, fewer than two parts.
HillsStart ==
    /\ HdStep("start")
    /\ IF hills_gdf = <<>>
          THEN hill_geoms' = hill_geoms /\ hd_ret' = "None" /\ hd_pc' = "done"
          ELSE /\ hill_geoms' = Explode(hills_gdf)
               /\ IF Len(hill_geoms') < 2
                     THEN hd_ret' = "None" /\ hd_pc' = "done"
                     ELSE hd_ret' = hd_ret /\ hd_pc' = "loop"
    /\ UNCHANGED <<hill_i, distances>>

\* Lines 138-144 when explode raises: the rows are kept as they are.  The
\* callers pass the one-row layer of a delineation, so fewer than two rows
\* remain.
HillsStartUnexploded ==
    /\ HdStep("start")
    /\ hills_gdf # <<>>
    /\ hill_geoms' = hills_gdf
    /\ Len(hill_geoms') < 2
    /\ hd_ret' = "None" /\ hd_pc' = "done"
    /\ UNCHANGED <<hill_i, distances>>

\* One iteration of the loop over the parts (lines 154-175).  The field
\* dist2 is not in the source record: it is min_dist squared, before
\* rounding.  Ties for the nearest part are broken by the order in which
\* the index returns the candidates.
HillsIterate ==
    /\ HdStep("loop")
    /\ hill_i < Len(hill_geoms)
    /\ LET candidates == Others(TreeQuery(hill_geoms, hill_i, max_distance_m), hill_i)
           d2(j)      == Dist2(hill_geoms[hill_i + 1], hill_geoms[j + 1])
       IN  IF candidates = {}
           THEN distances' = distances
           ELSE LET min_d2 == SetMin({d2(j) : j \in candidates})
                IN  IF WithinReach(min_d2, max_distance_m)
                    THEN \E nearest_idx \in {j \in candidates : d2(j) = min_d2} :
                            distances' = Append(distances,
                                [hill_id |-> hill_i, nearest_id |-> nearest_idx,
                                 distance_m |-> RoundTenths(min_d2),
                                 dist2 |-> min_d2])
                    ELSE distances' = distances
    /\ hill_i' = hill_i + 1
    /\ UNCHANGED <<hill_geoms, hd_ret, hd_pc>>

\* Lines 177-189.
HillsReturn ==
    /\ HdStep("loop")
    /\ hill_i = Len(hill_geoms)
    /\ hd_ret' = IF distances = <<>> THEN "None" ELSE "df"
    /\ hd_pc' = "done"
    /\ UNCHANGED <<hill_geoms, hill_i, distances>>

InitDist ==
    /\ IdleButDist
    /\ hills_gdf \in HillFrames
    /\ max_distance_m \in MaxDistances
    /\ hill_geoms = <<>> /\ hill_i = 0 /\ distances = <<>>
    /\ hd_ret = "pending" /\ hd_pc = "start"

NextDist ==
    HillsStart \/ HillsStartUnexploded \/ HillsIterate \/ HillsReturn

SpecDist == InitDist /\ [][NextDist]_vars

\* -------------------------------------------- stats.compute_statistics
MaxDistricts == 2

\* Areas are in thousandths of a square kilometre (area / 1e6 has three
\* decimals).  A district is given by its own area and by the areas of the
\* two layers clipped to it; a clipped layer is part of the district.
AreaValues == {0, 4, 1000, 1500}

DistrictInputs ==
    {[area |-> d, old |-> o, new |-> n]
        : d \in AreaValues, o \in AreaValues, n \in AreaValues}

DistrictChoices == {x \in DistrictInputs : x.old <= x.area /\ x.new <= x.area}

DistrictLists == UNION {[1 .. k -> DistrictChoices] : k \in 0 .. MaxDistricts}

\* round(n / d, digits) as an integer count of 10^-digits, scale = 10^digits;
\* halves go to the even neighbour.
RoundTo(n, d, scale) ==
    LET twice == 2 * n * scale + d
        q     == twice \div (2 * d)
    IN  IF twice % (2 * d) = 0 /\ q % 2 = 1 THEN q - 1 ELSE q

\* Variant: the percentage is guarded by the NEW area instead of the OLD one.
ChangePctGuardNew(change, old_area, new_area) ==
    IF new_area > 0 THEN <<100 * change, old_area>> ELSE <<0, 1>>

\* change_pct = (change_km2 / old_district_area * 100) if old_district_area > 0 else 0
ChangePct(change, old_area, new_area) ==
    IF old_area > 0 THEN <<100 * change, old_area>> ELSE <<0, 1>>

\* (x_district_area / district_area * 100) if district_area > 0 else 0
PctOfDistrict(part, whole) ==
    IF whole > 0 THEN <<100 * part, whole>> ELSE <<0, 1>>

RoundRat(x, scale) == IF x[2] = 0 THEN 0 ELSE RoundTo(x[1], x[2], scale)

\* One iteration of the loop over the districts (lines 57-87).
StatsIterate ==
    /\ st_pc = "loop"
    /\ district_idx < Len(districts)
    /\ LET district   == districts[district_idx + 1]
           change_km2 == <<district.new - district.old, 1000>>
           change_pct == ChangePct(district.new - district.old, district.old,
                                   district.new)
           old_pct    == PctOfDistrict(district.old, district.area)
           new_pct    == PctOfDistrict(district.new, district.area)
       IN  /\ locals' = [change_km2 |-> change_km2, change_pct |-> change_pct,
                         old_pct_of_district |-> old_pct,
                         new_pct_of_district |-> new_pct]
           /\ st_err' = (st_err \/ change_pct[2] = 0 \/ old_pct[2] = 0
                                \/ new_pct[2] = 0)
           /\ district_stats' = Append(district_stats,
                 [District_Area_km2 |-> RoundTo(district.area, 1000, 100),
                  OLD_Area_km2 |-> RoundTo(district.old, 1000, 100),
                  NEW_Area_km2 |-> RoundTo(district.new, 1000, 100),
                  Change_km2 |-> RoundRat(change_km2, 100),
                  Change_pct |-> RoundRat(change_pct, 10),
                  OLD_pct_of_District |-> RoundRat(old_pct, 10),
                  NEW_pct_of_District |-> RoundRat(new_pct, 10)])
    /\ district_idx' = district_idx + 1
    /\ UNCHANGED <<districts, st_pc>>
    /\ UNCHANGED notStat

\* stats['per_district'] = pd.DataFrame(district_stats)
StatsFinish ==
    /\ st_pc = "loop"
    /\ district_idx = Len(districts)
    /\ st_pc' = "done"
    /\ UNCHANGED <<districts, district_idx, locals, district_stats, st_err>>
    /\ UNCHANGED notStat

InitStats ==
    /\ IdleButStat
    /\ districts \in DistrictLists
    /\ district_idx = 0 /\ locals = <<>> /\ district_stats = <<>>
    /\ st_err = FALSE /\ st_pc = "loop"

NextStats == StatsIterate \/ StatsFinish

SpecStats == InitStats /\ [][NextStats]_vars

\* --------------------------------------- the relief window size alone
MaxRadius == 12
MaxPixel == 7

WindowCompute ==
    /\ w_pc = "start"
    /\ w_size' = WindowSize(w_radius, w_pixel)
    /\ w_pc' = "done"
    /\ UNCHANGED <<w_radius, w_pixel>>
    /\ UNCHANGED notWin

InitWindow ==
    /\ IdleButWin
    /\ w_radius \in 1 .. MaxRadius
    /\ w_pixel \in 1 .. MaxPixel
    /\ w_size = 0 /\ w_pc = "start"

NextWindow == WindowCompute

SpecWindow == InitWindow /\ [][NextWindow]_vars

\* ------------------------------------------------- core.run_analysis

\* Configurations: the NEW method name ("tiled" is not a method), the two
\* NEW thresholds, whether any district was loaded, whether the DEM loads
\* and whether it has a finite cell.
Configs ==
    [method : {Absent, Given("relief"), Given("contour"), Given("tiled")},
     relief_threshold_m : {Absent, Given(2)},
     range_proximity_m : {Absent, Given(3)},
     districts_loaded : BOOLEAN,
     dem_loads : BOOLEAN,
     dem_finite : BOOLEAN]

\* Outcomes of a call that are exceptions, not layers.
Exceptions == {"ValueError", "RuntimeError", "KeyError"}

\* Variant: an unknown method name falls back to the relief method.
NewOutcomesDefaultRelief(m, finite) ==
    IF ~finite THEN {"empty"}
    ELSE IF m = "contour" THEN {"empty", "NEW_2025_contour", "NEW_2025_relief"}
    ELSE {"empty", "NEW_2025_relief"}

\* compute_new_delineation: the layers each method can return (the contour
\* method returns the relief layer after a fallback), or the exception.
NewOutcomes(m, finite) ==
    IF m = "relief"
       THEN IF finite THEN {"empty", "NEW_2025_relief"} ELSE {"empty"}
    ELSE IF m = "contour"
       THEN IF finite THEN {"empty", "NEW_2025_contour", "NEW_2025_relief"}
            ELSE {"empty"}
    ELSE {"ValueError"}

OldOutcomes(finite) == IF finite THEN {"empty", "OLD_FSI_like"} ELSE {"empty"}

\* gpd.overlay(layer, aoi, how='intersection'), skipped for an empty layer.
Clipped(layer) == IF layer = "empty" THEN {"empty"} ELSE {"empty", layer}

RaStep(p, q, call) ==
    /\ ra_pc = p
    /\ ra_pc' = q
    /\ ra_calls' = Append(ra_calls, call)
    /\ UNCHANGED config
    /\ UNCHANGED notCore

RaRaise(p, call, e) ==
    /\ RaStep(p, "raised", call)
    /\ ra_err' = e
    /\ UNCHANGED <<old_gdf, new_gdf, old_clipped, new_clipped, hill_distances,
                   files, metadata>>

\* Lines 54-68.
RaLoadDistricts ==
    /\ ra_pc = "districts"
    /\ IF config.districts_loaded
          THEN /\ RaStep("districts", "dem", "load_district_boundaries")
               /\ UNCHANGED <<old_gdf, new_gdf, old_clipped, new_clipped,
                              hill_distances, files, metadata, ra_err>>
          ELSE RaRaise("districts", "load_district_boundaries", "ValueError")

\* Lines 84-99.
RaLoadDem ==
    /\ ra_pc = "dem"
    /\ IF config.dem_loads
          THEN /\ RaStep("dem", "old", "load_for_aoi")
               /\ UNCHANGED <<old_gdf, new_gdf, old_clipped, new_clipped,
                              hill_distances, files, metadata, ra_err>>
          ELSE RaRaise("dem", "load_for_aoi", "RuntimeError")

\* Variant: the method name is validated before the OLD delineation.
RaComputeOldValidated ==
    /\ ra_pc = "old"
    /\ IF Get(config, "method", "relief") \in {"relief", "contour"}
          THEN /\ RaStep("old", "new", "compute_old_delineation")
               /\ old_gdf' \in OldOutcomes(config.dem_finite)
               /\ UNCHANGED <<new_gdf, old_clipped, new_clipped, hill_distances,
                              files, metadata, ra_err>>
          ELSE RaRaise("old", "validate", "ValueError")

\* Lines 101-115.
RaComputeOld ==
    /\ RaStep("old", "new", "compute_old_delineation")
    /\ old_gdf' \in OldOutcomes(config.dem_finite)
    /\ UNCHANGED <<new_gdf, old_clipped, new_clipped, hill_distances, files,
                   metadata, ra_err>>

\* Lines 121-129: the parameters handed to compute_new_delineation, each
\* read from the configuration with the package default as fallback.
NewParams(cfg) ==
    [method |-> Get(cfg, "method", "relief"),
     relief_threshold_m |->
         Get(cfg, "relief_threshold_m", DefaultParams.relief_threshold),
     range_proximity_m |->
         Get(cfg, "range_proximity_m", DefaultParams.range_proximity)]

\* Lines 117-139.
RaComputeNew ==
    /\ ra_pc = "new"
    /\ \E out \in NewOutcomes(NewParams(config).method, config.dem_finite) :
          IF out \in Exceptions
             THEN RaRaise("new", "compute_new_delineation", out)
             ELSE /\ RaStep("new", "clip", "compute_new_delineation")
                  /\ new_gdf' = out
                  /\ UNCHANGED <<old_gdf, old_clipped, new_clipped,
                                 hill_distances, files, metadata, ra_err>>

\* Lines 144-145.
RaClip ==
    /\ RaStep("clip", "stats", "overlay")
    /\ old_clipped' \in Clipped(old_gdf)
    /\ new_clipped' \in Clipped(new_gdf)
    /\ UNCHANGED <<old_gdf, new_gdf, hill_distances, files, metadata, ra_err>>

\* Lines 148-153; the elevation statistics take np.min of the finite cells,
\* which raises when there is none (stats.py lines 92-102).
RaStatistics ==
    /\ ra_pc = "stats"
    /\ IF config.dem_finite
          THEN /\ RaStep("stats", "distances", "compute_statistics")
               /\ UNCHANGED <<old_gdf, new_gdf, old_clipped, new_clipped,
                              hill_distances, files, metadata, ra_err>>
          ELSE RaRaise("stats", "compute_statistics", "ValueError")

\* Lines 155-157: the distances are taken on the unclipped NEW layer.
RaHillDistances ==
    /\ RaStep("distances", "geojson", "compute_hill_distances")
    /\ hill_distances' \in (IF new_gdf = "empty" THEN {"None"} ELSE {"None", "df"})
    /\ UNCHANGED <<old_gdf, new_gdf, old_clipped, new_clipped, files, metadata,
                   ra_err>>

\* Lines 162-172.
RaSaveGeojson ==
    /\ RaStep("geojson", "tables", "to_file")
    /\ files' = files
          \cup (IF old_clipped # "empty" THEN {"old_aravalli.geojson"} ELSE {})
          \cup (IF new_clipped # "empty" THEN {"new_aravalli.geojson"} ELSE {})
    /\ UNCHANGED <<old_gdf, new_gdf, old_clipped, new_clipped, hill_distances,
                   metadata, ra_err>>

\* Lines 174-181.
RaSaveTables ==
    /\ RaStep("tables", "metadata", "to_csv")
    /\ files' = files \cup {"tables/summary.csv"}
          \cup (IF hill_distances # "None" THEN {"tables/hill_distances.csv"}
                ELSE {})
    /\ UNCHANGED <<old_gdf, new_gdf, old_clipped, new_clipped, hill_distances,
                   metadata, ra_err>>

\* Lines 183-205.
RaSaveMetadata ==
    /\ RaStep("metadata", "maps", "json.dump")
    /\ metadata' = [method |-> Get(config, "method", "relief"),
                    relief_threshold |-> DefaultParams.relief_threshold,
                    range_proximity |-> DefaultParams.range_proximity]
    /\ files' = files \cup {"tables/metadata.json"}
    /\ UNCHANGED <<old_gdf, new_gdf, old_clipped, new_clipped, hill_distances,
                   ra_err>>

\* Lines 207-239.
RaGenerateMaps ==
    /\ RaStep("maps", "done", "generate_maps")
    /\ files' = files \cup {"maps"}
    /\ UNCHANGED <<old_gdf, new_gdf, old_clipped, new_clipped, hill_distances,
                   metadata, ra_err>>

InitCore ==
    /\ IdleButCore
    /\ config \in Configs
    /\ ra_pc = "districts" /\ old_gdf = "unset" /\ new_gdf = "unset"
    /\ old_clipped = "unset" /\ new_clipped = "unset"
    /\ hill_distances = "unset" /\ files = {} /\ metadata = <<>>
    /\ ra_err = "" /\ ra_calls = <<>>

NextCore ==
    \/ RaLoadDistricts \/ RaLoadDem \/ RaComputeOld \/ RaComputeNew \/ RaClip
    \/ RaStatistics \/ RaHillDistances \/ RaSaveGeojson \/ RaSaveTables
    \/ RaSaveMetadata \/ RaGenerateMaps

SpecCore == InitCore /\ [][NextCore]_vars

\* ------------------------------------ proximity clustering of two hills
\* The plane is sampled on the unit lattice.  A hill is a disc; buffer(h)
\* adds every point within h of the geometry, buffer(-h) keeps the points
\* whose whole neighbourhood of radius h lies in the geometry.
MaxGap == 12

\* <<range_proximity, radius>>: sizes at which the sampled closing agrees,
\* for every whole gap, with the exact one of two discs.
ClusterCases == {<<4, 4>>, <<4, 8>>, <<8, 4>>, <<10, 5>>}

Disc(h) == {b \in (-h .. h) \X (-h .. h) : b[1] * b[1] + b[2] * b[2] <= h * h}

\* Two discs of radius r, the second one to the right at a gap g.
TwoDiscs(r, g) ==
    LET d == Disc(r) IN d \cup {Shift(b, <<2 * r + g, 0>>) : b \in d}

Buffer(S, h) == LET d == Disc(h) IN {Shift(x, b) : x \in S, b \in d}
Unbuffer(S, h) == LET d == Disc(h) IN {x \in S : \A b \in d : Shift(x, b) \in S}

\* gpd.GeoSeries([new_union]).buffer(half_proximity)
ClBuffer ==
    /\ cl_pc = "union"
    /\ cl_geom' = Buffer(cl_geom, cl_prox \div 2)
    /\ cl_pc' = "buffered"
    /\ UNCHANGED <<cl_prox, cl_radius, cl_gap>>
    /\ UNCHANGED notCl

\* new_clustered.unary_union: the one buffered geometry, dissolved.
ClUnaryUnion ==
    /\ cl_pc = "buffered"
    /\ cl_geom' = UNION Components(cl_geom)
    /\ cl_pc' = "dissolved"
    /\ UNCHANGED <<cl_prox, cl_radius, cl_gap>>
    /\ UNCHANGED notCl

\* gpd.GeoSeries([new_clustered]).buffer(-half_proximity).iloc[0]
ClUnbuffer ==
    /\ cl_pc = "dissolved"
    /\ cl_geom' = Unbuffer(cl_geom, cl_prox \div 2)
    /\ cl_pc' = "clustered"
    /\ UNCHANGED <<cl_prox, cl_radius, cl_gap>>
    /\ UNCHANGED notCl

InitCluster ==
    /\ IdleButCl
    /\ \E cs \in ClusterCases : cl_prox = cs[1] /\ cl_radius = cs[2]
    /\ cl_gap \in 0 .. MaxGap
    /\ cl_geom = TwoDiscs(cl_radius, cl_gap)
    /\ cl_pc = "union"

NextCluster == ClBuffer \/ ClUnaryUnion \/ ClUnbuffer

SpecCluster == InitCluster /\ [][NextCluster]_vars

\* ------------------------------------ the closedness test of a contour
MaxVertices == 5

\* np.allclose(a, b, atol=...) keeps its default rtol = 1e-05.
RtolInverse == 100000

Abs(x) == IF x < 0 THEN -x ELSE x

\* np.allclose(a, b, atol): |a - b| <= atol + rtol * |b| in each coordinate.
AllClose(a, b, atol) ==
    \A i \in 1 .. 2 :
        Abs(a[i] - b[i]) * RtolInverse <= atol * RtolInverse + Abs(b[i])

\* First vertices, in projected metres: near the origin of the grid, and
\* at a UTM easting and northing of northern India.
FirstVertices == {<<0, 0>>, <<500000, 3000000>>}
EndOffsets == {0, 30, 31, 45, 61}

Paths ==
    [codes : BOOLEAN, n : 3 .. MaxVertices, first : FirstVertices,
     last : {Shift(f, <<dx, dy>>) : f \in FirstVertices,
                                     dx \in EndOffsets, dy \in EndOffsets},
     valid : BOOLEAN]

CpStep(p, q) ==
    /\ cp_pc = p
    /\ cp_pc' = q
    /\ UNCHANGED <<cp_pixel_size, cp_path>>
    /\ UNCHANGED notCp

\* if path.codes is not None and len(path.vertices) > 3
CpCheckPath ==
    /\ CpStep("path", IF cp_path.codes /\ cp_path.n > 3 THEN "check" ELSE "skipped")
    /\ UNCHANGED cp_closed

\* if np.allclose(path.vertices[0], path.vertices[-1], atol=pixel_size)
CpCheckClosed ==
    /\ CpStep("check", IF AllClose(cp_path.first, cp_path.last, cp_pixel_size)
                          THEN "polygon" ELSE "skipped")
    /\ UNCHANGED cp_closed

\* poly = Polygon(path.vertices); appended if poly.is_valid and poly.area > 0
CpAppend ==
    /\ CpStep("polygon", IF cp_path.valid THEN "kept" ELSE "skipped")
    /\ cp_closed' = IF cp_path.valid
                       THEN Append(cp_closed, <<cp_path.first, cp_path.last>>)
                       ELSE cp_closed

InitClosed ==
    /\ IdleButCp
    /\ cp_pixel_size = 30
    /\ cp_path \in {q \in Paths : q.last[1] >= q.first[1] /\ q.last[2] >= q.first[2]
                                  /\ q.last[1] - q.first[1] \in EndOffsets
                                  /\ q.last[2] - q.first[2] \in EndOffsets}
    /\ cp_closed = <<>>
    /\ cp_pc = "path"

NextClosed == CpCheckPath \/ CpCheckClosed \/ CpAppend

SpecClosed == InitClosed /\ [][NextClosed]_vars

\* ------------------------------- the morphology steps of the OLD method
MaxGapBridge == 4
MaxFoothill == 3
MaxMorphPixel == 2

\* Masks that enter the morphology: at most two true cells.
MorphMasks == SubsetsUpTo(Cells, 2)

MoStep(p, q) ==
    /\ mo_pc = p
    /\ mo_pc' = q
    /\ UNCHANGED <<mo_pixel_size, mo_gap_bridge, mo_foothill_buffer, mo_classified>>
    /\ UNCHANGED notMo

\* if gap_pixels > 0: ndimage.binary_closing(..., iterations=gap_pixels)
MoClose ==
    LET gap_pixels == GapPixels(mo_gap_bridge, mo_pixel_size) IN
    /\ MoStep("close", "dilate")
    /\ IF gap_pixels > 0
          THEN /\ mo_mask' = BinaryClosing(mo_mask, gap_pixels)
               /\ mo_calls' = Append(mo_calls, <<"binary_closing", gap_pixels>>)
          ELSE UNCHANGED <<mo_mask, mo_calls>>

\* if buffer_pixels > 0: ndimage.binary_dilation(..., iterations=buffer_pixels)
MoDilate ==
    LET buffer_pixels == BufferPixels(mo_foothill_buffer, mo_pixel_size) IN
    /\ MoStep("dilate", "final")
    /\ IF buffer_pixels > 0
          THEN /\ mo_mask' = BinaryDilation(mo_mask, buffer_pixels)
               /\ mo_calls' = Append(mo_calls, <<"binary_dilation", buffer_pixels>>)
          ELSE UNCHANGED <<mo_mask, mo_calls>>

InitMorph ==
    /\ IdleButMo
    /\ mo_pixel_size \in 1 .. MaxMorphPixel
    /\ mo_gap_bridge \in 0 .. MaxGapBridge
    /\ mo_foothill_buffer \in 0 .. MaxFoothill
    /\ mo_classified \in MorphMasks
    /\ mo_mask = mo_classified
    /\ mo_calls = <<>>
    /\ mo_pc = "close"

NextMorph == MoClose \/ MoDilate

SpecMorph == InitMorph /\ [][NextMorph]_vars

\* ------------------------------- the peak detection of the contour method
MaxPeakCols == 6
MaxPeakElev == 1
MaxPeakPixel == 600

\* One row of cells.
PeakCells == {0} \X (0 .. MaxPeakCols - 1)

\* Rows with at least one finite cell: without one the method has
\* returned before the peak detection.
PeakRows ==
    {f \in [PeakCells -> {NoData} \cup (0 .. MaxPeakElev)] :
        \E c \in PeakCells : IsFinite(f[c])}

\* Pixel sizes that give the windows 11, 7, 5, 5 and 5.
PeakPixelSizes == {50, 71, 100, 125, MaxPeakPixel}

PkStep(p, q) ==
    /\ pk_pc = p
    /\ pk_pc' = q
    /\ UNCHANGED <<pk_pixel_size, pk_Z>>
    /\ UNCHANGED notPk

\* peak_window = max(5, int(500 / pixel_size)); if even, peak_window += 1
PkWindow ==
    /\ PkStep("window", "filter")
    /\ pk_window' = PeakWindow(pk_pixel_size)
    /\ UNCHANGED pk_peaks

\* peaks_mask = (Z_filled == maximum_filter(Z_filled, size=peak_window))
\*              & Z_finite
PkFilter ==
    /\ PkStep("filter", "done")
    /\ pk_peaks' = PeaksMask(pk_Z, pk_window, 1, MaxPeakCols)
    /\ UNCHANGED pk_window

InitPeaks ==
    /\ IdleButPk
    /\ pk_pixel_size \in PeakPixelSizes
    /\ pk_Z \in PeakRows
    /\ pk_window = 0
    /\ pk_peaks = {}
    /\ pk_pc = "window"

NextPeaks == PkWindow \/ PkFilter

SpecPeaks == InitPeaks /\ [][NextPeaks]_vars

\* =========================================================== properties
Range(sq) == {sq[i] : i \in DOMAIN sq}
Before(sq, a, b) ==
    \A i, j \in DOMAIN sq : (sq[i] = a /\ sq[j] = b) => i < j

UrbanApplied == ~urban.none /\ Cardinality(urban.cells) > 0

\* Stage names of the OLD pipeline, and what a complete run must log.
OldStageLog ==
    <<"slope", "threshold", "urban">>
    \o (IF UrbanApplied THEN <<"exclude">> ELSE <<>>)
    \o (IF params.gap_bridge > 0 THEN <<"close">> ELSE <<>>)
    \o (IF params.foothill_buffer > 0 THEN <<"dilate">> ELSE <<>>)
    \o <<"polygonize", "dissolve">>

ClassifiedOld ==
    SlopeMask(ComputeSlopeDegrees(Z, params.pixel_size), Z, params.slope_threshold)
    \ (IF UrbanApplied THEN urban.cells ELSE {})

ClassifiedRelief ==
    ReliefMask(ComputeRelief(Z, WindowSize(params.relief_radius, params.pixel_size)),
               Z, params.relief_threshold)

LaterStages == {"close", "dilate", "polygonize", "dissolve", "cluster"}

\* C2: when the mask is empty after classification (OLD: slope threshold
\* and urban exclusion; NEW fast: relief threshold), the run ends with the
\* empty layer and none of closing, dilation, polygonize, dissolve and
\* clustering has been executed.
C2_EmptyShortCircuit ==
    /\ (method = "old"
            /\ pc \notin {"read", "raised", "slope", "threshold", "urban", "emptycheck"}
            /\ ClassifiedOld = {})
        => (pc = "done" /\ result = EmptyLayer /\ Range(log) \cap LaterStages = {})
    /\ ((method = "relief" \/ fellback)
            /\ pc \in {"r_polygonize", "r_dissolve", "r_cluster", "done"}
            /\ ClassifiedRelief = {})
        => (pc = "done" /\ result = EmptyLayer /\ Range(log) \cap LaterStages = {})

C2_Witness ==
    /\ method = "old" /\ pc = "done" /\ result = EmptyLayer
    /\ "exclude" \in Range(log) /\ "warn_empty" \in Range(log)
    /\ SlopeMask(metric, Z, params.slope_threshold) # {}

\* C3: right after thresholding, a cell is true iff its elevation is finite
\* and the predicate holds: slope strictly above the threshold for OLD (a
\* slope equal to the threshold is not classified), relief at least the
\* threshold for NEW (a relief equal to the threshold is classified); a
\* no-data cell is never true.
C3_ThresholdMask ==
    /\ (method = "old" /\ pc = "urban") =>
         \A c \in Cells :
            LET tn == params.slope_threshold[1]
                td == params.slope_threshold[2]
            IN  c \in mask <=>
                  /\ Z[c] # NoData
                  /\ metric[c][1] * td * td > tn * tn * metric[c][2]
    /\ (pc = "r_emptycheck") =>
         \A c \in Cells :
            c \in mask <=>
               (Z[c] # NoData /\ metric[c][1] >= params.relief_threshold * metric[c][2])

C3_Witness ==
    /\ method = "old" /\ pc = "urban" /\ mask # {}
    /\ \E c \in Cells :
          /\ Z[c] # NoData /\ c \notin mask
          /\ metric[c][1] > 0
          /\ metric[c][1] * params.slope_threshold[2] * params.slope_threshold[2]
               = params.slope_threshold[1] * params.slope_threshold[1] * metric[c][2]
    /\ \E c \in Cells : Z[c] = NoData

\* C4: after the enclosure search of the contour method, every detected
\* peak that some closed contour contains has a footprint iff its elevation
\* minus the lowest elevation of the contours containing it is at least
\* relief_threshold_m; that footprint is the only one of the peak, and its
\* base, relief and geometry are those of a contour of that lowest
\* elevation.  A peak no contour contains has no footprint.
C4_LowestEnclosing ==
    (method = "contour" /\ ~fellback /\ "enclosure" \in Range(log)) =>
        /\ \A k \in DOMAIN hill_footprints :
              \E q \in DOMAIN peak_coords : peak_coords[q] = hill_footprints[k].peak
        /\ \A q \in DOMAIN peak_coords :
              LET p      == peak_coords[q]
                  elev   == FilledWithMin(Z)[p]
                  within == {i \in DOMAIN closed_contours :
                                p \in closed_contours[i].geometry}
                  mine   == {k \in DOMAIN hill_footprints : hill_footprints[k].peak = p}
                  lowest == SetMin({closed_contours[i].elevation : i \in within})
              IN  IF within = {} \/ elev - lowest < params.relief_threshold
                  THEN mine = {}
                  ELSE /\ Cardinality(mine) = 1
                       /\ \A k \in mine :
                            /\ hill_footprints[k].base_elev = lowest
                            /\ hill_footprints[k].peak_elev = elev
                            /\ hill_footprints[k].relief = elev - lowest
                            /\ \E i \in within :
                                 /\ closed_contours[i].elevation = lowest
                                 /\ closed_contours[i].geometry
                                      = hill_footprints[k].geometry

C4_Witness ==
    /\ method = "contour" /\ ~fellback /\ pc = "done"
    /\ \E k \in DOMAIN hill_footprints :
          \E i, j \in DOMAIN closed_contours :
             /\ hill_footprints[k].peak \in closed_contours[i].geometry
             /\ hill_footprints[k].peak \in closed_contours[j].geometry
             /\ closed_contours[i].elevation < closed_contours[j].elevation
             /\ hill_footprints[k].base_elev = closed_contours[i].elevation

\* Every result _compute_relief_method can return for a DEM and parameters.
ReliefResults(Zg, p) ==
    LET m == ReliefMask(ComputeRelief(Zg, WindowSize(p.relief_radius, p.pixel_size)),
                        Zg, p.relief_threshold)
    IN  IF m = {} THEN {EmptyLayer}
        ELSE {IF geoms = {} THEN EmptyLayer
              ELSE Layer("NEW_2025_relief",
                         [cells |-> UNION geoms,
                          ops |-> << <<p.range_proximity, 2>>,
                                     <<-p.range_proximity, 2>> >>])
                : geoms \in PolygonizeMask(m)}

\* C5: in the contour method, when tracing raises or leaves no closed
\* contour, the run does not fail: a fallback warning is logged and the
\* run returns a result of the relief method for the same DEM and
\* parameters; and the contour method returns a relief-method layer only
\* after such a fallback was logged.
C5_Fallback ==
    method = "contour" =>
        /\ ("warn_contour_failed" \in Range(log)) => fellback
        /\ (pc \notin {"read", "c_start", "c_trace", "c_check"} /\ FiniteCells(Z) # {}
               /\ closed_contours = <<>>) => fellback
        /\ fellback <=> "warn_fallback" \in Range(log)
        /\ fellback => /\ Before(log, "warn_fallback", "relief")
                       /\ Before(log, "warn_fallback", "threshold")
                       /\ pc \in Range(ReliefOrder)
        /\ (fellback /\ pc = "done") => result \in ReliefResults(Z, params)
        /\ (result.layer = "NEW_2025_relief") => fellback

C5_Witness ==
    /\ method = "contour" /\ pc = "done" /\ fellback /\ result.rows = 1
    /\ "warn_contour_failed" \in Range(log)

ClusterOps == << <<params.range_proximity, 2>>, <<-params.range_proximity, 2>> >>

\* C6: proximity clustering is the buffer by range_proximity_m / 2 followed
\* by the buffer by minus that amount, in both NEW methods; it is applied
\* only after the polygonize/union step of the method, never on a run that
\* returns the empty layer, and never in the OLD method.
C6_Clustering ==
    /\ geom.ops \in {<<>>, ClusterOps}
    /\ geom.ops # <<>> <=> "cluster" \in Range(log)
    /\ "cluster" \in Range(log) =>
          /\ method \in {"relief", "contour"}
          /\ "dissolve" \in Range(log)
          /\ Before(log, "dissolve", "cluster")
          /\ Before(log, "polygonize", "cluster")
          /\ pc = "done" /\ result.rows = 1 /\ result.geometry = geom
    /\ (pc = "done" /\ result.rows = 1 /\ method # "old") =>
          (result.geometry.ops = ClusterOps /\ result.geometry.cells # {})
    /\ (pc = "done" /\ result.rows = 0) => "cluster" \notin Range(log)
    /\ method = "old" => (geom.ops = <<>> /\ result.geometry.ops = <<>>)

C6_Witness ==
    /\ method = "contour" /\ ~fellback /\ pc = "done" /\ result.rows = 1
    /\ result.layer = "NEW_2025_contour"
    /\ result.geometry.ops = ClusterOps

\* ------------------------------------------------ nearest-neighbour rows
PartIds == 0 .. Len(hill_geoms) - 1

PartDist2(i, j) == Dist2(hill_geoms[i + 1], hill_geoms[j + 1])

RowsOf(i) == {k \in 1 .. Len(distances) : distances[k].hill_id = i}

\* Three unit parts on a line with gaps 1 and 3 (100 m and 300 m at 100 m
\* per unit).
LineOfThree == <<BoxAt(<<0, 0>>), BoxAt(<<2, 0>>), BoxAt(<<6, 0>>)>>

\* C7: in every row of compute_hill_distances the nearest part is another
\* part, and the distance is the minimum of the exact distances from the
\* part to all other parts (distance_m is that minimum rounded to 0.1); for
\* three parts on a line with gaps 1 and 3 and a search radius of 10 the
\* rows report 1 for the first and the middle part and 3 for the last.
C7_NearestNeighbour ==
    /\ \A k \in 1 .. Len(distances) :
          LET r == distances[k]
          IN  /\ r.hill_id \in PartIds /\ r.nearest_id \in PartIds
              /\ r.nearest_id # r.hill_id
              /\ r.dist2 = SetMin({PartDist2(r.hill_id, j)
                                     : j \in PartIds \ {r.hill_id}})
              /\ PartDist2(r.hill_id, r.nearest_id) = r.dist2
              /\ r.distance_m = RoundTenths(r.dist2)
    /\ (hd_pc = "done" /\ hill_geoms = LineOfThree /\ max_distance_m = 10) =>
          /\ hd_ret = "df"
          /\ [k \in 1 .. Len(distances) |-> distances[k].hill_id] = <<0, 1, 2>>
          /\ [k \in 1 .. Len(distances) |-> distances[k].distance_m]
                = <<10, 10, 30>>
          /\ distances[2].nearest_id = 0

C7_Witness ==
    /\ hd_pc = "done" /\ hill_geoms = LineOfThree /\ max_distance_m = 10
    /\ Len(distances) = 3 /\ distances[3].nearest_id = 1
    /\ distances[3].distance_m = 30

\* C8: a part already visited has a row exactly when some other part lies
\* strictly closer than max_distance_m (a nearest part exactly at
\* max_distance_m gives no row); every row names a real nearest part; and
\* the function returns None exactly when there are fewer than two parts or
\* no row was produced.
C8_OmitOutOfRange ==
    /\ \A i \in PartIds :
          i < hill_i =>
             /\ Cardinality(RowsOf(i)) <= 1
             /\ RowsOf(i) # {} <=>
                   \E j \in PartIds \ {i} :
                      PartDist2(i, j) < max_distance_m * max_distance_m
    /\ \A k \in 1 .. Len(distances) :
          /\ distances[k].nearest_id # -1
          /\ distances[k].dist2 < max_distance_m * max_distance_m
    /\ hd_pc = "done" =>
          /\ hd_ret \in {"None", "df"}
          /\ hd_ret = "None" <=> (Len(hill_geoms) < 2 \/ distances = <<>>)
          /\ Len(hill_geoms) >= 2 => hill_i = Len(hill_geoms)

C8_Witness ==
    /\ hd_pc = "done" /\ hill_geoms = LineOfThree /\ max_distance_m = 3
    /\ hd_ret = "df" /\ Len(distances) = 2
    /\ RowsOf(2) = {} /\ PartDist2(2, 1) = 9

\* ------------------------------------------------- per-district columns
\* C9: in every row of the per-district table, Change_km2 is the NEW
\* clipped area minus the OLD clipped area, Change_pct is that change over
\* the OLD clipped area times 100 when the OLD clipped area is positive and 0
\* otherwise, the two shares are the clipped area over the district area
\* times 100 and 0 for a district of zero area (each column rounded to its
\* printed precision), and no division has a zero divisor.
C9_DistrictStats ==
    /\ ~st_err
    /\ Len(district_stats) = district_idx
    /\ \A k \in 1 .. Len(district_stats) :
          LET d   == districts[k]
              row == district_stats[k]
          IN  /\ row.Change_km2 = RoundTo(d.new - d.old, 1000, 100)
              /\ row.Change_pct =
                    IF d.old > 0 THEN RoundTo(100 * (d.new - d.old), d.old, 10)
                    ELSE 0
              /\ row.OLD_pct_of_District =
                    IF d.area > 0 THEN RoundTo(100 * d.old, d.area, 10) ELSE 0
              /\ row.NEW_pct_of_District =
                    IF d.area > 0 THEN RoundTo(100 * d.new, d.area, 10) ELSE 0
    /\ district_idx > 0 =>
          LET d == districts[district_idx]
          IN  /\ RatEq(locals.change_km2, <<d.new - d.old, 1000>>)
              /\ IF d.old > 0
                    THEN RatEq(locals.change_pct, <<100 * (d.new - d.old), d.old>>)
                    ELSE RatEq(locals.change_pct, <<0, 1>>)
              /\ IF d.area > 0
                    THEN /\ RatEq(locals.old_pct_of_district, <<100 * d.old, d.area>>)
                         /\ RatEq(locals.new_pct_of_district, <<100 * d.new, d.area>>)
                    ELSE /\ RatEq(locals.old_pct_of_district, <<0, 1>>)
                         /\ RatEq(locals.new_pct_of_district, <<0, 1>>)

C9_Witness ==
    /\ st_pc = "done" /\ Len(district_stats) = 2
    /\ districts[1].area = 0
    /\ district_stats[1].OLD_pct_of_District = 0
    /\ districts[2].old = 0 /\ districts[2].new = 1000 /\ districts[2].area = 1500
    /\ district_stats[2].Change_pct = 0 /\ district_stats[2].Change_km2 = 100
    /\ district_stats[2].NEW_pct_of_District = 667

\* ------------------------------------------------------ relief window
\* C10: for every positive relief radius and pixel size the window size of
\* the minimum filter is odd and at least 3.
C10_WindowOdd ==
    /\ w_pc = "done" => (w_size % 2 = 1 /\ w_size >= 3)
    /\ pc \notin {"idle", "r_window"} /\ method = "relief" =>
          (window_size % 2 = 1 /\ window_size >= 3)

C10_Witness ==
    /\ w_pc = "done" /\ w_radius = 8 /\ w_pixel = 2 /\ w_size = 5

\* C11 (as stated): the window size is the smallest odd integer that is
\* >= max(3, radius / pixel size), the quotient taken exactly.
C11_RoundedUpExact ==
    w_pc = "done" =>
        /\ w_size % 2 = 1 /\ w_size >= 3
        /\ w_size * w_pixel >= w_radius
        /\ w_size - 2 < 3 \/ (w_size - 2) * w_pixel < w_radius

\* C11 (amended): the window size is the smallest odd integer that is
\* >= max(3, floor(radius / pixel size)): the quotient is truncated before
\* the window is made odd.
C11_RoundedUpFromFloor ==
    w_pc = "done" =>
        LET q == Max(3, w_radius \div w_pixel)
        IN  /\ w_size % 2 = 1
            /\ w_size >= q
            /\ w_size - 2 < q

C11_Witness ==
    /\ w_pc = "done" /\ w_radius = 11 /\ w_pixel = 2 /\ w_size = 5

\* ------------------------------------------------------- polygon repair
Polygonized == "polygonize" \in Range(log)

\* A zero-width buffer of a traced ring that touches itself at a corner
\* gives a valid, non-empty geometry over the same cells, so with the repair
\* every component of the mask stays in the output.
\* C12 (as stated): after polygonization, in the OLD and in the NEW
\* method, every traced polygon whose zero-width buffer is valid and
\* non-empty is in the output, so no component of the mask is missing.
C12_RepairedPolygonsKept ==
    Polygonized => polygons = Components(mask)

\* --------------------------------------------------- unknown method name
UnknownMethod ==
    ra_pc # "idle" /\ Get(config, "method", "relief") \notin {"relief", "contour"}

\* C13: in a run whose NEW method name is neither 'relief' nor 'contour',
\* compute_new_delineation raises ValueError: no NEW layer is ever bound (no
\* method is substituted), the run stops there, and no output file is ever
\* written.
C13_UnknownMethodFatal ==
    UnknownMethod =>
        /\ new_gdf = "unset" /\ new_clipped = "unset"
        /\ files = {} /\ metadata = <<>>
        /\ ra_pc \in {"districts", "dem", "old", "new", "raised"}
        /\ "compute_new_delineation" \in Range(ra_calls) =>
              /\ ra_pc = "raised" /\ ra_err = "ValueError"
              /\ ra_calls[Len(ra_calls)] = "compute_new_delineation"

C13_Witness ==
    /\ UnknownMethod /\ ra_pc = "raised" /\ ra_err = "ValueError"
    /\ "compute_new_delineation" \in Range(ra_calls)
    /\ old_gdf = "OLD_FSI_like" /\ files = {}

\* ------------------------------------------------- missing threshold key
ThresholdMissing == given # <<>> /\ given[ThresholdKey(method)] = Absent

\* C14 (as stated): a delineation called without its threshold key raises
\* and produces no layer, in the OLD method and in both NEW methods.
C14_MissingThresholdFatal ==
    (ThresholdMissing /\ pc # "read") =>
        (pc = "raised" /\ err # "" /\ result = Pending)

\* C14 (amended): compute_old_delineation without slope_threshold_deg
\* raises KeyError before any stage runs and returns no layer; the NEW
\* methods without relief_threshold_m do not raise: they run with the
\* default threshold and return what a call with that threshold returns.
C14_MissingThresholdOldOnly ==
    /\ (ThresholdMissing /\ method = "old" /\ pc # "read") =>
          (pc = "raised" /\ err = "KeyError" /\ result = Pending /\ log = <<>>)
    /\ (ThresholdMissing /\ method \in {"relief", "contour"}) =>
          /\ err = "" /\ pc # "raised"
          /\ pc # "read" =>
                params.relief_threshold = DefaultParams.relief_threshold
          /\ (pc = "done" /\ (method = "relief" \/ fellback)) =>
                result \in ReliefResults(Z,
                    [params EXCEPT !.relief_threshold = DefaultParams.relief_threshold])
    /\ pc = "raised" => (ThresholdMissing /\ method = "old")

C14_Witness ==
    /\ ThresholdMissing /\ method = "relief" /\ pc = "done" /\ err = ""
    /\ result.rows = 1 /\ result.layer = "NEW_2025_relief"

\* ------------------------------------------------- grid without data
NoFiniteCell == method # "none" /\ FiniteCells(Z) = {}

\* C15 (as stated): on a grid without any finite cell the delineation ends
\* in a fatal error and returns no layer, not even the empty one.
C15_NoDataFatal ==
    (NoFiniteCell /\ pc \in {"done", "raised"}) =>
        (pc = "raised" /\ err # "" /\ result # EmptyLayer)

\* C15 (amended): on a grid without any finite cell the OLD method, the
\* relief method and the contour method raise nothing and return the empty
\* layer, as for an empty classification; no stage after the
\* classification runs (the contour method returns before it generates
\* contour levels).
C15_NoDataEmptyLayer ==
    (NoFiniteCell /\ ~ThresholdMissing) =>
        /\ err = "" /\ pc # "raised"
        /\ mask = {} /\ result \in {Pending, EmptyLayer}
        /\ Range(log) \cap LaterStages = {}
        /\ pc = "done" => result = EmptyLayer
        /\ method = "contour" => (log = <<>> /\ ~fellback)
        /\ method = "old" => pc \in {"read", "slope", "threshold", "urban",
                                      "emptycheck", "done"}
        /\ method = "relief" => pc \in {"read", "r_window", "r_filter",
                                         "r_threshold", "r_emptycheck", "done"}

C15_Witness ==
    /\ NoFiniteCell /\ method = "old" /\ pc = "done" /\ result = EmptyLayer
    /\ err = "" /\ "warn_empty" \in Range(log)

\* ------------------------------------------------- dilation of the mask
\* The mask that enters the dilation, recomputed from the inputs.
BeforeDilation ==
    LET gap_pixels == GapPixels(params.gap_bridge, params.pixel_size)
    IN  IF gap_pixels > 0 THEN BinaryClosing(ClassifiedOld, gap_pixels)
                          ELSE ClassifiedOld

\* C19: the dilation step of compute_old_delineation never shrinks the
\* mask: whatever the mask and the foothill buffer (0 included), every
\* cell that is true before the step is true after it, so the number of
\* true cells does not decrease.
C19_DilationNeverShrinks ==
    [][(method = "old" /\ pc = "dilate") =>
          (mask \subseteq mask' /\ Cardinality(mask') >= Cardinality(mask))]_vars

C19_Witness ==
    /\ method = "old" /\ pc = "polygonize" /\ "dilate" \in Range(log)
    /\ BeforeDilation # {} /\ BeforeDilation \subseteq mask
    /\ Cardinality(mask) > Cardinality(BeforeDilation)

\* ------------------------------------------------- flat grids
\* All finite cells of the grid have one elevation.
ConstantElevation(Zg) ==
    \A c, d \in FiniteCells(Zg) : Zg[c] = Zg[d]

ExternalRequests == {"urban"}

\* Positions of the log at which a request was issued.
Requests(l) == {i \in DOMAIN l : l[i] \in ExternalRequests}

C16_MergedWithinProximity ==
    cl_pc = "clustered" =>
        Cardinality(Components(cl_geom))
            = (IF cl_gap <= cl_prox THEN 1 ELSE 2)

\* ------------------------------------------------- closed contours
\* C17: a path kept as a closed contour has more than 3 vertices and end
\* points that differ by at most one pixel size in each coordinate,
\* wherever the path lies in the projected plane.
C17_ClosedWithinOnePixel ==
    cp_pc = "kept" =>
        /\ cp_path.n > 3
        /\ \A i \in 1 .. 2 :
              Abs(cp_path.first[i] - cp_path.last[i]) <= cp_pixel_size

\* ------------------------------------------------- flat grids, NEW
\* C21: on a grid of constant elevation and with a relief threshold > 0
\* compute_new_delineation returns the empty layer: the relief method
\* because the relief is 0 everywhere, the contour method because no
\* closed contour is found (or the tracing fails) and it falls back to the
\* relief method.
C21_FlatGridEmptyNew ==
    (method \in {"relief", "contour"} /\ ConstantElevation(Z)
        /\ ReliefThresholdGet(given) > 0) =>
        /\ mask = {} /\ closed_contours = <<>> /\ hill_footprints = <<>>
        /\ pc = "done" => result = EmptyLayer
        /\ pc \in {"read", "c_start", "c_trace", "c_check", "r_window",
                   "r_filter", "r_threshold", "r_emptycheck", "done"}
        /\ (method = "contour" /\ pc = "done" /\ FiniteCells(Z) # {}) =>
              (fellback /\ "warn_fallback" \in Range(log))
        /\ pc \notin {"read", "c_start", "c_trace", "c_check", "r_window",
                      "r_filter"} =>
              \A c \in Cells : metric[c] # NaN => metric[c][1] = 0

C21_Witness ==
    /\ method = "contour" /\ pc = "done" /\ result = EmptyLayer /\ fellback
    /\ ConstantElevation(Z) /\ params.relief_threshold > 0
    /\ \E c, d \in Cells : Z[c] = MaxElev /\ Z[d] = NoData
    /\ "warn_contour_failed" \notin Range(log)

\* ------------------------------------------------- no buffer, no gap
NoMorphology ==
    method = "old" /\ pc \notin {"read", "raised"}
    /\ params.foothill_buffer = 0 /\ params.gap_bridge = 0

\* The slope exceeds the threshold at every finite cell and nothing is
\* excluded.
SteepEverywhere ==
    /\ FiniteCells(Z) # {}
    /\ SlopeMask(ComputeSlopeDegrees(Z, params.pixel_size), Z,
                 params.slope_threshold) = FiniteCells(Z)

\* C22: with foothill_buffer_m = 0 and gap_bridge_m = 0 neither closing
\* nor dilation runs and the final mask is the mask after threshold and
\* exclusion; when moreover the slope exceeds the threshold at every finite
\* cell and nothing is excluded, the final mask is the whole finite extent
\* and the returned layer is one dissolved geometry that covers it.
C22_NoMorphologyFullCover ==
    /\ NoMorphology =>
          /\ "close" \notin Range(log) /\ "dilate" \notin Range(log)
          /\ pc \in {"close", "dilate", "polygonize", "dissolve"} =>
                mask = ClassifiedOld
          /\ (pc = "done" /\ result.rows = 1) => mask = ClassifiedOld
    /\ (NoMorphology /\ SteepEverywhere /\ ~UrbanApplied /\ pc = "done") =>
          /\ mask = FiniteCells(Z)
          /\ result.rows = 1
          /\ result.geometry.cells = FiniteCells(Z)

\* ------------------------------------------------- iteration counts
\* n is the smallest integer with n >= a / b.
IsCeiling(n, a, b) == n * b >= a /\ (n - 1) * b < a

IterationsOf(name) ==
    {mo_calls[i][2] : i \in {j \in DOMAIN mo_calls : mo_calls[j][1] = name}}

\* C23: the closing runs ceiling(gap_bridge / pixel_size / 2) iterations
\* and the dilation ceiling(foothill_buffer / pixel_size) iterations of the
\* 4-connected structuring element, closing first; a step whose count is 0
\* is not called at all, so no call is made with iterations = 0 (which the
\* library would repeat until the mask is stable).
C23_IterationCounts ==
    mo_pc = "final" =>
        LET nc == CHOOSE n \in 0 .. mo_gap_bridge :
                      IsCeiling(n, mo_gap_bridge, 2 * mo_pixel_size)
            nd == CHOOSE n \in 0 .. mo_foothill_buffer :
                      IsCeiling(n, mo_foothill_buffer, mo_pixel_size)
        IN  /\ \A i \in DOMAIN mo_calls : mo_calls[i][2] >= 1
            /\ IterationsOf("binary_closing") = (IF nc > 0 THEN {nc} ELSE {})
            /\ IterationsOf("binary_dilation") = (IF nd > 0 THEN {nd} ELSE {})
            /\ Len(mo_calls) = (IF nc > 0 THEN 1 ELSE 0) + (IF nd > 0 THEN 1 ELSE 0)
            /\ (nc > 0 /\ nd > 0) => mo_calls[1][1] = "binary_closing"
            /\ mo_mask = BinaryDilation(
                            BinaryErosion(BinaryDilation(mo_classified, nc), nc), nd)

C23_Witness ==
    /\ mo_pc = "final"
    /\ mo_calls = << <<"binary_closing", 1>>, <<"binary_dilation", 2>> >>
    /\ mo_gap_bridge = 3 /\ mo_foothill_buffer = 3 /\ mo_pixel_size = 2
    /\ mo_mask # mo_classified

\* ------------------------------------------------- gap bridging
\* C27: every cell that is true after threshold and exclusion is true in
\* the final mask handed to the polygonizer, whatever the gap and buffer
\* radius and wherever the cell lies, the border of the grid included.
C27_ClosingOnlyAdds ==
    mo_pc = "final" => mo_classified \subseteq mo_mask

\* ------------------------------------------------- urban exclusion
\* C24: the urban step of compute_old_delineation replaces the slope mask
\* by its AND with the negation of the urban mask; when _generate_urban_mask
\* returns None (no features, or an exception in the fetch or the
\* rasterization) or a mask without a true pixel, the slope mask is left as
\* it is; in every case the run goes on to the empty-mask check and raises
\* nothing.
C24_UrbanExclusionOptional ==
    [][(method = "old" /\ pc = "urban") =>
          /\ pc' = "emptycheck" /\ err' = "" /\ result' = Pending
          /\ mask' = {c \in mask : urban'.none \/ c \notin urban'.cells}
          /\ (urban'.none \/ urban'.cells = {}) =>
                (mask' = mask /\ "exclude" \notin Range(log'))]_vars

C24_Witness ==
    /\ method = "old" /\ pc = "done" /\ result.rows = 1 /\ err = ""
    /\ urban.none /\ mask # {} /\ "exclude" \notin Range(log)

\* ------------------------------------------------- peak detection
\* The window is odd and at least 5 for every pixel size up to
\* MaxPeakPixel.
PeakWindowsOdd ==
    \A h \in 1 .. MaxPeakPixel : PeakWindow(h) >= 5 /\ PeakWindow(h) % 2 = 1

\* The filled elevation of c is the greatest within w \div 2 cells of c.
LocalMaximum(Zg, c, w) ==
    LET zf == FilledWithMin(Zg)
    IN  \A d \in DOMAIN Zg :
            (Abs(d[1] - c[1]) <= w \div 2 /\ Abs(d[2] - c[2]) <= w \div 2)
                => zf[d] <= zf[c]

\* C25: the peak window is an odd integer >= 5 for every pixel size, and a
\* cell is a peak exactly when its filled elevation is the maximum over the
\* window centred on it and its own elevation is not no-data; a no-data
\* cell is never a peak.
C25_PeakDetection ==
    /\ PeakWindowsOdd
    /\ pk_pc \in {"filter", "done"} => (pk_window >= 5 /\ pk_window % 2 = 1)
    /\ pk_pc = "done" =>
          \A c \in PeakCells :
              c \in pk_peaks <=>
                  (IsFinite(pk_Z[c]) /\ LocalMaximum(pk_Z, c, pk_window))

C25_Witness ==
    /\ pk_pc = "done" /\ pk_window = 5
    /\ \E c \in pk_peaks : \E d \in PeakCells : pk_Z[d] > pk_Z[c]
    /\ \E c \in PeakCells :
          ~IsFinite(pk_Z[c]) /\ LocalMaximum(pk_Z, c, pk_window)

\* ------------------------------------------------- unknown method, order
\* The run has ended with the error of the unknown method name.
UnknownMethodRaised ==
    /\ UnknownMethod /\ ra_pc = "raised"
    /\ config.districts_loaded /\ config.dem_loads

\* C26 (as stated): a run that ends with the unknown-method error has not
\* computed the OLD delineation.
C26_FailFast ==
    UnknownMethodRaised => "compute_old_delineation" \notin Range(ra_calls)

\* C26 (amended): the method name is checked only inside
\* compute_new_delineation; a run that ends with the unknown-method error
\* has loaded the boundaries and the DEM and has computed the whole OLD
\* delineation before, the ValueError is raised by the call that follows
\* it, and nothing is clipped or written.
C26_UnknownMethodAfterOld ==
    /\ UnknownMethodRaised =>
          /\ ra_err = "ValueError"
          /\ ra_calls = <<"load_district_boundaries", "load_for_aoi",
                          "compute_old_delineation", "compute_new_delineation">>
          /\ old_gdf \in OldOutcomes(config.dem_finite)
          /\ new_gdf = "unset" /\ old_clipped = "unset" /\ files = {}
    /\ (UnknownMethod /\ config.districts_loaded /\ config.dem_loads) =>
          ra_pc \in {"districts", "dem", "old", "new", "raised"}

C26_Witness ==
    /\ UnknownMethodRaised /\ old_gdf = "OLD_FSI_like" /\ ra_err = "ValueError"
    /\ Len(ra_calls) = 4

\* C28: the parameters object of metadata.json records the parameters that
\* were used: once the file is written, its method, relief_threshold and
\* range_proximity equal the values that run_analysis handed to
\* compute_new_delineation, also when the configuration overrides
\* relief_threshold_m or range_proximity_m.
C28_MetadataRecordsParameters ==
    "tables/metadata.json" \in files =>
        /\ metadata.method = NewParams(config).method
        /\ metadata.relief_threshold = NewParams(config).relief_threshold_m
        /\ metadata.range_proximity = NewParams(config).range_proximity_m

\* The rows of the returned table of nearest-neighbour distances.
ReportedRows ==
    IF hd_pc = "done" /\ hd_ret = "df" THEN Range(distances) ELSE {}

\* C29: the nearest-neighbour results are mutually consistent: when part i
\* is reported with nearest part j at distance d, part j is reported too,
\* and with a distance that is at most d.
C29_NearestMutuallyConsistent ==
    \A r \in ReportedRows :
        \E s \in ReportedRows :
            /\ s.hill_id = r.nearest_id
            /\ s.distance_m <= r.distance_m

\* Three parts in a row: the last one is nearest to the middle one, which
\* has a strictly nearer neighbour of its own.
C29_Witness ==
    \E r \in ReportedRows :
        \E s \in ReportedRows :
            /\ s.hill_id = r.nearest_id
            /\ s.nearest_id # r.hill_id
            /\ 0 < s.distance_m /\ s.distance_m < r.distance_m

\* ------------------------------------- dem_providers: the DEM tile cache
MaxTiles == 2
TileChunks == 1
MaxRuns == 2

Providers == {"copernicus", "srtm"}

\* output_dir / "COP_<tile>.tif" and output_dir / "SRTM_<tile>.tif".
TileFiles == {"COP", "SRTM"} \X (1 .. MaxTiles)

\* The cache directory maps a file name to Absent (no such file) or to
\* Given(k), a file holding the first k chunks of the tile.
EmptyCache == [p \in TileFiles |-> Absent]

\* output_path.exists()
Exists(fs, p) == fs[p] # Absent

\* The outcomes of the try block for a path that does not exist (lines
\* 101-129 and 171-194).  Either the request fails, is answered 404 or is
\* refused by raise_for_status before the file is opened; or
\* open(output_path, 'wb') creates the file and k chunks are written before
\* the stream ends (k = TileChunks, the path is returned) or breaks (the
\* RequestException is caught, None is returned, the file stays).
Fetch(fs, p) ==
    {[files |-> fs, path |-> Absent, cached |-> FALSE]}
    \cup {[files |-> [fs EXCEPT ![p] = Given(k)],
           path |-> IF k = TileChunks THEN Given(p) ELSE Absent,
           cached |-> FALSE] : k \in 0 .. TileChunks}

\* Lines 85-129.
DownloadCopernicusTile(fs, tile) ==
    LET output_path == <<"COP", tile>>
    IN  IF Exists(fs, output_path)
        THEN {[files |-> fs, path |-> Given(output_path), cached |-> TRUE]}
        ELSE Fetch(fs, output_path)

\* Lines 145-194.
DownloadSrtmTileOpentopo(fs, tile) ==
    LET output_path == <<"SRTM", tile>>
    IN  IF Exists(fs, output_path)
        THEN {[files |-> fs, path |-> Given(output_path), cached |-> TRUE]}
        ELSE Fetch(fs, output_path)

TcStep(p, q) ==
    /\ tc_pc = p
    /\ tc_pc' = q
    /\ UNCHANGED <<tc_provider, tc_tiles, tc_runs>>
    /\ UNCHANGED notTc

\* Lines 229-234: the Copernicus attempt for the next tile.
DemTryCopernicus ==
    /\ TcStep("tile", "fallback")
    /\ tc_i < tc_tiles
    /\ IF tc_provider = "copernicus"
          THEN \E o \in DownloadCopernicusTile(tc_files, tc_i + 1) :
                  /\ tc_files' = o.files
                  /\ tc_path' = o.path
                  /\ tc_cached' = o.cached
          ELSE tc_files' = tc_files /\ tc_path' = Absent /\ tc_cached' = FALSE
    /\ UNCHANGED <<tc_i, tc_paths, tc_failed, tc_err>>

\* Lines 237-242: the SRTM fallback.
DemFallbackSrtm ==
    /\ TcStep("fallback", "collect")
    /\ IF tc_path = Absent
          THEN \E o \in DownloadSrtmTileOpentopo(tc_files, tc_i + 1) :
                  /\ tc_files' = o.files
                  /\ tc_path' = o.path
                  /\ tc_cached' = o.cached
          ELSE UNCHANGED <<tc_files, tc_path, tc_cached>>
    /\ UNCHANGED <<tc_i, tc_paths, tc_failed, tc_err>>

\* Lines 244-247.
DemCollect ==
    /\ TcStep("collect", "tile")
    /\ IF tc_path # Absent
          THEN tc_paths' = Append(tc_paths, tc_path[1]) /\ tc_failed' = tc_failed
          ELSE tc_paths' = tc_paths /\ tc_failed' = Append(tc_failed, tc_i + 1)
    /\ tc_i' = tc_i + 1
    /\ UNCHANGED <<tc_files, tc_path, tc_cached, tc_err>>

\* Lines 249-264: no tile at all is an error, otherwise the tiles are
\* merged.
DemMerge ==
    /\ TcStep("tile", "done")
    /\ tc_i = tc_tiles
    /\ tc_err' = IF tc_paths = <<>> THEN "RuntimeError" ELSE ""
    /\ UNCHANGED <<tc_files, tc_i, tc_path, tc_cached, tc_paths, tc_failed>>

\* A later run calls download_dem_for_bounds again on the same cache
\* directory (lines 219-226).
DemCallAgain ==
    /\ tc_pc = "done" /\ tc_pc' = "tile"
    /\ tc_runs < MaxRuns
    /\ tc_runs' = tc_runs + 1
    /\ tc_provider' \in Providers
    /\ tc_tiles' \in 1 .. MaxTiles
    /\ tc_i' = 0 /\ tc_path' = Absent /\ tc_cached' = FALSE
    /\ tc_paths' = <<>> /\ tc_failed' = <<>> /\ tc_err' = ""
    /\ UNCHANGED tc_files
    /\ UNCHANGED notTc

InitCache ==
    /\ IdleButTc
    /\ tc_files = EmptyCache
    /\ tc_provider \in Providers
    /\ tc_tiles \in 1 .. MaxTiles
    /\ tc_i = 0 /\ tc_path = Absent /\ tc_cached = FALSE
    /\ tc_paths = <<>> /\ tc_failed = <<>> /\ tc_err = ""
    /\ tc_runs = 1 /\ tc_pc = "tile"

NextCache ==
    DemTryCopernicus \/ DemFallbackSrtm \/ DemCollect \/ DemMerge
    \/ DemCallAgain

SpecCache == InitCache /\ [][NextCache]_vars

\* C30: a tile file that a download function returns as "already exists"
\* holds the whole tile; no partially written file is ever returned as a
\* cached tile, whatever download attempts came before.
C30_CachedTilesComplete ==
    (tc_cached /\ tc_path # Absent) =>
        tc_files[tc_path[1]] = Given(TileChunks)

====
